---- MODULE Spec2Model ----
(***************************************************************************)
(* Round-advancement engine of SubQuest (fabienstrauss/subquest-devvit).   *)
(*                                                                         *)
(* The model covers the persisted game state, the per-round vote records,  *)
(* the pending scheduler jobs and the handlers that touch them:            *)
(* SchedulerHandler.handleRoundAdvancement / manualRoundAdvancement /      *)
(* executeRoundAdvancement, VoteCounter.getWinningChoice,                  *)
(* StoryEngine.advanceStoryByChoice / navigateToNode,                      *)
(* PostManager.createStoryRoundPost / createEndGameRecapPost and the       *)
(* moderator actions that start and reset a game.                          *)
(*                                                                         *)
(* A handler is an async function: every await on the store is one atomic  *)
(* step of the process that runs the handler, so that two handlers may     *)
(* interleave between any two store accesses.  Calls to Reddit (score      *)
(* fetch, post and comment creation) and to the scheduler do not touch the *)
(* store; each is folded into the neighbouring store step and its outcome  *)
(* (success or failure) is a nondeterministic choice.                      *)
(***************************************************************************)
EXTENDS Integers, Sequences, FiniteSets, TLC

(***************************************************************************)
(* Bounds of the model.                                                    *)
(***************************************************************************)
MaxRound == 3
MaxScore == 2
MaxTime == 1
MaxJobs == 2
MaxChoices == 1
MaxEdits == 1

MaxPath == MaxRound + 1

(***************************************************************************)
(* Program constants.                                                      *)
(***************************************************************************)
maxRetries == 3

Procs == {"p1", "p2"}
Rounds == 1..MaxRound
Scores == 0..MaxScore
FetchFailed == 0 - 1
Durations == {1}
TestModes == {FALSE}

(* VoteCounterConfig: the defaults (minimumVotes 0, random tie-breaking)   *)
(* and a deployment with a vote threshold and the first-choice tie-breaker *)
VoteCounterConfigs ==
  {[minimumVotes |-> 0, randomTieBreaking |-> TRUE],
   [minimumVotes |-> 1, randomTieBreaking |-> FALSE]}

(***************************************************************************)
(* The stored story: Story.nodes, each node with its ordered choices and   *)
(* its isEnd flag.  Choice id A occurs on two nodes, the choice with the   *)
(* numeric id 1 leads back to the node that offers it, endZ is the end     *)
(* node.  A choice id is any non-empty string (validateChoice).            *)
(***************************************************************************)
NodeIds == {"start", "nodeX", "endZ"}
ChoiceIds == {"A", "B", "1"}

Story ==
  [startNodeId |-> "start",
   nodes |-> [n \in NodeIds |->
      CASE n = "start" -> [isEnd |-> FALSE,
                           choices |-> << [id |-> "A", nextNodeId |-> "nodeX"],
                                          [id |-> "B", nextNodeId |-> "endZ"] >>]
        [] n = "nodeX" -> [isEnd |-> FALSE,
                           choices |-> << [id |-> "A", nextNodeId |-> "endZ"],
                                          [id |-> "1", nextNodeId |-> "nodeX"] >>]
        [] OTHER       -> [isEnd |-> TRUE, choices |-> << >>]]]

Range(s) == {s[i] : i \in 1..Len(s)}

NodeChoiceIds(n) == {c.id : c \in Range(Story.nodes[n].choices)}

ChoiceIdSeq(n) == [i \in 1..Len(Story.nodes[n].choices) |-> Story.nodes[n].choices[i].id]

(* property keys that are array indices, with their numeric value          *)
IntegerKeys == [k \in {"1"} |-> 1]

RECURSIVE InsertKey(_, _)
InsertKey(sorted, k) ==
  IF Len(sorted) = 0 THEN << k >>
  ELSE IF IntegerKeys[Head(sorted)] <= IntegerKeys[k]
       THEN << Head(sorted) >> \o InsertKey(Tail(sorted), k)
       ELSE << k >> \o sorted

RECURSIVE SortKeys(_)
SortKeys(ks) ==
  IF Len(ks) = 0 THEN << >>
  ELSE InsertKey(SortKeys(SubSeq(ks, 1, Len(ks) - 1)), ks[Len(ks)])

(* the key order of the object choiceMapping[choices[i].id] = commentIds[i] *)
(* after JSON.stringify / JSON.parse, as Object.entries enumerates it:     *)
(* integer keys first, ascending, then the other keys in insertion order   *)
ObjectKeys(ids) ==
  LET IsInteger(k) == k \in DOMAIN IntegerKeys
      IsString(k) == k \notin DOMAIN IntegerKeys
  IN  SortKeys(SelectSeq(ids, IsInteger)) \o SelectSeq(ids, IsString)

(* faulty variant of FindChoice: an unknown choice id selects the first    *)
(* choice of the node                                                      *)
FindChoiceOrFirst(n, cid) ==
  LET cs == Story.nodes[n].choices
      hits == {i \in 1..Len(cs) : cs[i].id = cid}
  IN  IF Len(cs) = 0 THEN [found |-> FALSE, nextNodeId |-> "none"]
      ELSE [found |-> TRUE,
            nextNodeId |-> IF hits = {} THEN cs[1].nextNodeId
                           ELSE cs[CHOOSE i \in hits : \A j \in hits : i <= j].nextNodeId]

(* currentNode.choices.find(choice => choice.id === choiceId)              *)
FindChoice(n, cid) ==
  LET cs == Story.nodes[n].choices
      hits == {i \in 1..Len(cs) : cs[i].id = cid}
  IN  IF hits = {} THEN [found |-> FALSE, nextNodeId |-> "none"]
      ELSE [found |-> TRUE,
            nextNodeId |-> cs[CHOOSE i \in hits : \A j \in hits : i <= j].nextNodeId]

(***************************************************************************)
(* Story graphs as a moderator may put them into the storyJson setting:    *)
(* node a is present, node b may be, a node is an end node or not and has  *)
(* up to MaxChoices choices, a choice and startNodeId name a or b.         *)
(* Object.keys(nodes) enumerates a before b.  The fields title,            *)
(* description, content and text are well-formed.                          *)
(***************************************************************************)
GraphNodeIds == {"a", "b"}
GraphKeyOrder == << "a", "b" >>
GraphChoiceIds ==
  [i \in 1..(MaxChoices + 1) |-> IF i = 1 THEN "c1" ELSE IF i = 2 THEN "c2" ELSE "c3"]

GraphChoices(targets) ==
  [i \in 1..Len(targets) |-> [id |-> GraphChoiceIds[i], nextNodeId |-> targets[i]]]

GraphNodes ==
  {[isEnd |-> e, choices |-> GraphChoices(ts)] :
     e \in BOOLEAN, ts \in UNION {[1..n -> GraphNodeIds] : n \in 0..MaxChoices}}

Graphs ==
  {[startNodeId |-> st, nodes |-> ns] :
     st \in GraphNodeIds, ns \in UNION {[D -> GraphNodes] : D \in {{"a"}, GraphNodeIds}}}

NoGraph == [startNodeId |-> "none", nodes |-> << >>]

NoError == [kind |-> "none", node |-> "none", choice |-> 0]

GraphError(kind, node, choice) == [kind |-> kind, node |-> node, choice |-> choice]

(* the choices of node n whose nextNodeId is no node of the graph          *)
DanglingChoices(g, n) ==
  {i \in 1..Len(g.nodes[n].choices) :
     g.nodes[n].choices[i].nextNodeId \notin DOMAIN g.nodes}

(* 'End node should not have choices' / 'is marked as end but has choices' *)
EndWithChoices(g, n) == g.nodes[n].isEnd /\ Len(g.nodes[n].choices) > 0

(* 'Non-end node must have at least one choice' / 'is not marked as end    *)
(* but has no choices'                                                     *)
NonEndWithoutChoices(g, n) == ~g.nodes[n].isEnd /\ Len(g.nodes[n].choices) = 0

(* findReachableNodes and the traversal in validateStoryReferences: the    *)
(* ids visited from startNodeId after n rounds                             *)
RECURSIVE ReachFrom(_, _, _)
ReachFrom(g, visited, n) ==
  IF n = 0 THEN visited
  ELSE ReachFrom(g,
         visited \cup UNION {{g.nodes[v].choices[i].nextNodeId :
                                i \in 1..Len(g.nodes[v].choices)} :
                             v \in visited \cap DOMAIN g.nodes},
         n - 1)

ReachableNodes(g) == ReachFrom(g, {g.startNodeId}, Cardinality(GraphNodeIds))

(* the first id of a non-empty set of node ids in Object.keys order        *)
FirstKey(S) ==
  GraphKeyOrder[CHOOSE i \in 1..Len(GraphKeyOrder) :
                  /\ GraphKeyOrder[i] \in S
                  /\ \A j \in 1..(i - 1) : GraphKeyOrder[j] \notin S]

(* faulty variant of ValidateStoryJson: nextNodeId is not looked up        *)
ValidateStoryJsonNoReferences(g) ==
  LET ids == DOMAIN g.nodes
  IN  (IF ids = {} THEN {GraphError("noNodes", "none", 0)} ELSE {})
      \cup (IF g.startNodeId \notin ids
            THEN {GraphError("startMissing", g.startNodeId, 0)} ELSE {})
      \cup {GraphError("endWithChoices", n, 0) : n \in {m \in ids : EndWithChoices(g, m)}}
      \cup {GraphError("nonEndWithoutChoices", n, 0) :
              n \in {m \in ids : NonEndWithoutChoices(g, m)}}
      \cup {GraphError("unreachable", n, 0) :
              n \in {m \in ids : m # g.startNodeId /\ m \notin ReachableNodes(g)}}

(* SettingsHandler.validateStoryJson with validateStoryNode: the errors it *)
(* collects (a choice is named by its index); the story is accepted when   *)
(* there is none                                                           *)
ValidateStoryJson(g) ==
  LET ids == DOMAIN g.nodes
  IN  (IF ids = {} THEN {GraphError("noNodes", "none", 0)} ELSE {})
      \cup (IF g.startNodeId \notin ids
            THEN {GraphError("startMissing", g.startNodeId, 0)} ELSE {})
      \cup UNION {{GraphError("dangling", n, i) : i \in DanglingChoices(g, n)} : n \in ids}
      \cup {GraphError("endWithChoices", n, 0) : n \in {m \in ids : EndWithChoices(g, m)}}
      \cup {GraphError("nonEndWithoutChoices", n, 0) :
              n \in {m \in ids : NonEndWithoutChoices(g, m)}}
      \cup {GraphError("unreachable", n, 0) :
              n \in {m \in ids : m # g.startNodeId /\ m \notin ReachableNodes(g)}}

(* StoryEngine.loadStory (validateStoryStructure, validateStoryReferences): *)
(* the first error it throws, NoError when the story is loaded; an         *)
(* unreachable node is logged only                                         *)
LoadStoryError(g) ==
  LET ids == DOMAIN g.nodes
      malformed == {n \in ids : EndWithChoices(g, n) \/ NonEndWithoutChoices(g, n)}
      dangling == {n \in ids : DanglingChoices(g, n) # {}}
  IN  IF ids = {} THEN GraphError("noNodes", "none", 0)
      ELSE IF malformed # {}
      THEN LET n == FirstKey(malformed)
           IN  GraphError(IF EndWithChoices(g, n) THEN "endWithChoices"
                          ELSE "nonEndWithoutChoices", n, 0)
      ELSE IF g.startNodeId \notin ids THEN GraphError("startMissing", g.startNodeId, 0)
      ELSE IF dangling # {}
      THEN LET n == FirstKey(dangling)
           IN  GraphError("dangling", n,
                          CHOOSE i \in DanglingChoices(g, n) :
                            \A j \in DanglingChoices(g, n) : i <= j)
      ELSE IF \A n \in ids : ~g.nodes[n].isEnd THEN GraphError("noEnd", "none", 0)
      ELSE NoError

(***************************************************************************)
(* Store records.  A key that is absent holds the record with              *)
(* exists = FALSE.                                                         *)
(***************************************************************************)
NoGameState ==
  [exists |-> FALSE, currentNodeId |-> "none", roundNumber |-> 0,
   storyPath |-> << >>, isActive |-> FALSE, roundStartTime |-> 0,
   roundDurationHours |-> 0, testMode |-> FALSE]

NoConfig == [exists |-> FALSE, roundDurationHours |-> 0, isGameActive |-> FALSE]

NoVoteData == [exists |-> FALSE, choices |-> << >>]

(* faulty variant of NewGameState: the story path starts empty             *)
NewGameStateEmptyPath(startNodeId, duration, testMode, t) ==
  [exists |-> TRUE, currentNodeId |-> startNodeId, roundNumber |-> 1,
   storyPath |-> << >>, isActive |-> TRUE, roundStartTime |-> t,
   roundDurationHours |-> duration, testMode |-> testMode]

(* RedisManager.initializeNewGame: the game state it writes                *)
NewGameState(startNodeId, duration, testMode, t) ==
  [exists |-> TRUE, currentNodeId |-> startNodeId, roundNumber |-> 1,
   storyPath |-> << startNodeId >>, isActive |-> TRUE, roundStartTime |-> t,
   roundDurationHours |-> duration, testMode |-> testMode]

(* faulty variant of PushPath: the node is appended even when it is the    *)
(* last entry already                                                      *)
PushPathAlways(path, nodeId) == Append(path, nodeId)

(* the path update shared by advanceStoryByChoice and navigateToNode       *)
PushPath(path, nodeId) ==
  IF Len(path) = 0 \/ path[Len(path)] # nodeId THEN Append(path, nodeId) ELSE path

(* advanceStoryByChoice: the state it computes from the state it re-read   *)
AdvancedState(gs, nextNodeId, t) ==
  [gs EXCEPT !.currentNodeId = nextNodeId,
             !.roundNumber = gs.roundNumber + 1,
             !.roundStartTime = t,
             !.storyPath = PushPath(gs.storyPath, nextNodeId)]

(* navigateToNode: the state it computes from the state it read            *)
NavigatedState(gs, nodeId) ==
  [gs EXCEPT !.currentNodeId = nodeId,
             !.storyPath = PushPath(gs.storyPath, nodeId)]

(* faulty variant of CompletedState: the game stays active                 *)
CompletedStateStillActive(gs) == gs

(* RedisManager.completeGame: gameState.isActive = false                   *)
CompletedState(gs) == [gs EXCEPT !.isActive = FALSE]

(***************************************************************************)
(* Vote tally.                                                             *)
(***************************************************************************)
(* faulty variant of RawResults: one failed fetch empties the tally        *)
RawResultsAborting(choices, fetched) ==
  IF \E i \in 1..Len(choices) : fetched[i] = FetchFailed THEN << >>
  ELSE [i \in 1..Len(choices) |-> [choiceId |-> choices[i], upvotes |-> fetched[i]]]

(* countVotes: one result per tracked choice, a failed fetch counts 0      *)
RawResults(choices, fetched) ==
  [i \in 1..Len(choices) |->
     [choiceId |-> choices[i],
      upvotes |-> IF fetched[i] = FetchFailed THEN 0 ELSE fetched[i]]]

RECURSIVE InsertDesc(_, _)
InsertDesc(sorted, r) ==
  IF Len(sorted) = 0 THEN << r >>
  ELSE IF Head(sorted).upvotes >= r.upvotes
       THEN << Head(sorted) >> \o InsertDesc(Tail(sorted), r)
       ELSE << r >> \o sorted

(* results.sort((a, b) => b.upvotes - a.upvotes): stable, descending       *)
RECURSIVE SortDesc(_)
SortDesc(rs) ==
  IF Len(rs) = 0 THEN << >>
  ELSE InsertDesc(SortDesc(SubSeq(rs, 1, Len(rs) - 1)), rs[Len(rs)])

(* faulty variant of CountVotes: the results are left in tracking order    *)
CountVotesUnsorted(vd, fetched) ==
  IF ~vd.exists THEN << >> ELSE RawResults(vd.choices, fetched)

(* countVotes: no results without a vote record, the sorted results else   *)
CountVotes(vd, fetched) ==
  IF ~vd.exists THEN << >> ELSE SortDesc(RawResults(vd.choices, fetched))

(* resolveTie: any tied choice when random, the first one otherwise        *)
ResolveTie(topChoices, randomTieBreaking) ==
  IF randomTieBreaking THEN {topChoices[i].choiceId : i \in 1..Len(topChoices)}
  ELSE {topChoices[1].choiceId}

(* faulty variant of WinningChoices: minimumVotes is not applied           *)
WinningChoicesNoMinimum(voteResults, minimumVotes, randomTieBreaking) ==
  IF Len(voteResults) = 0 THEN {"none"}
  ELSE LET highestVoteCount == voteResults[1].upvotes
           Top(r) == r.upvotes = highestVoteCount
           topChoices == SelectSeq(voteResults, Top)
       IN  IF Len(topChoices) = 1 THEN {topChoices[1].choiceId}
           ELSE ResolveTie(topChoices, randomTieBreaking)

(* faulty variant of WinningChoices: a score equal to minimumVotes is      *)
(* filtered out                                                            *)
WinningChoicesAboveMinimum(voteResults, minimumVotes, randomTieBreaking) ==
  IF Len(voteResults) = 0 THEN {"none"}
  ELSE LET Valid(r) == r.upvotes > minimumVotes
           validResults == SelectSeq(voteResults, Valid)
       IN  IF Len(validResults) = 0 THEN {"none"}
           ELSE LET highestVoteCount == validResults[1].upvotes
                    Top(r) == r.upvotes = highestVoteCount
                    topChoices == SelectSeq(validResults, Top)
                IN  IF Len(topChoices) = 1 THEN {topChoices[1].choiceId}
                    ELSE ResolveTie(topChoices, randomTieBreaking)

(* getWinningChoice: the set of choice ids it may return, "none" for null  *)
WinningChoices(voteResults, minimumVotes, randomTieBreaking) ==
  IF Len(voteResults) = 0 THEN {"none"}
  ELSE LET Valid(r) == r.upvotes >= minimumVotes
           validResults == SelectSeq(voteResults, Valid)
       IN  IF Len(validResults) = 0 THEN {"none"}
           ELSE LET highestVoteCount == validResults[1].upvotes
                    Top(r) == r.upvotes = highestVoteCount
                    topChoices == SelectSeq(validResults, Top)
                IN  IF Len(topChoices) = 1 THEN {topChoices[1].choiceId}
                    ELSE ResolveTie(topChoices, randomTieBreaking)

(***************************************************************************)
(* State.                                                                  *)
(*   gameState  the record under subquest:gamestate                        *)
(*   config     the record under subquest:config                           *)
(*   voteData   the records under subquest:votes:round<N>                  *)
(*   jobs       number of pending subquest_round_advance jobs per round    *)
(*              (at most MaxJobs pending jobs in all)                      *)
(*   now        Date.now()                                                 *)
(*   vcConfig   VoteCounterConfig of the deployment                        *)
(*   pc, loc    position and local variables of each running handler       *)
(*   advances   completed advanceStoryByChoice calls since the last start  *)
(*   tally      the last call of getWinningChoice made on its own: the     *)
(*              record it read, the scores it fetched, what countVotes     *)
(*              returned to it and what it returned                        *)
(*   story      the graph in the storyJson setting, the graph under        *)
(*              subquest:story when it was put there from the setting (the *)
(*              engine runs on Story otherwise), the errors                *)
(*              validateStoryJson collected or the error loadStory threw   *)
(*              when the setting was validated last                        *)
(***************************************************************************)
VARIABLES gameState, config, voteData, jobs, now, vcConfig, pc, loc, advances,
          tally, story, timing

vars == << gameState, config, voteData, jobs, now, vcConfig, pc, loc, advances,
           tally, story, timing >>

store == << gameState, config, voteData, jobs >>

(***************************************************************************)
(* Local variables of a handler.  kind is the entry point, crn is          *)
(* currentRoundNumber, gs the state object being modified, snap is         *)
(* gameStateBeforePost.  The remaining fields record what the handler has  *)
(* observed and done: pre (state at the round check), attemptPre (state    *)
(* when the attempt began), seenNode (the node advanceStoryByChoice found  *)
(* current), landed (newCurrentNode), afx (what the current attempt has    *)
(* done so far: "tally", "advance", "publish" and "finalize" for the calls *)
(* of createStoryRoundPost and createEndGameRecapPost, "posted", "votes",  *)
(* "recap", "complete", "restore", "schedule" for the call of              *)
(* scheduleNextRound, "job" for the job it created), top and noValid (what *)
(* the fetched scores say about the winner), runIn (the delay, in minutes, *)
(* of the job scheduleNextRound created).                                  *)
(***************************************************************************)
IdleLoc ==
  [kind |-> "none", crn |-> 0, attempt |-> 0, winner |-> "none",
   selNext |-> "none", gs |-> NoGameState, snap |-> NoGameState,
   pmNode |-> "none", pmRound |-> 0, result |-> "none", outcome |-> "none",
   pre |-> NoGameState, attemptPre |-> NoGameState,
   seenNode |-> "none", landed |-> "none", afx |-> {},
   top |-> "none", noValid |-> FALSE, runIn |-> 0]

NoUpload ==
  [settings |-> NoGraph, edits |-> 0, hasStory |-> FALSE, stored |-> NoGraph,
   errors |-> {}, thrown |-> NoError, result |-> "none"]

NoTally ==
  [called |-> FALSE, node |-> "none", vd |-> NoVoteData, fetched |-> << >>,
   voteResults |-> << >>, winner |-> "none"]

(* the sample of the time queries: nothing asked, nothing stored           *)
NoTiming ==
  [gs |-> NoGameState, now |-> 0, asked |-> FALSE, stored |-> FALSE,
   roundEndTime |-> 0, remaining |-> 0, expired |-> FALSE,
   scheduled |-> FALSE, scheduledTime |-> 0, timeRemaining |-> 0, due |-> FALSE]

Init ==
  /\ gameState = NoGameState
  /\ config = NoConfig
  /\ voteData = [r \in Rounds |-> NoVoteData]
  /\ jobs = [r \in Rounds |-> 0]
  /\ now = 0
  /\ vcConfig \in VoteCounterConfigs
  /\ pc = [p \in Procs |-> "idle"]
  /\ loc = [p \in Procs |-> IdleLoc]
  /\ advances = 0
  /\ tally = NoTally
  /\ timing = NoTiming
  /\ story = NoUpload

Goto(p, label, l) ==
  /\ pc' = [pc EXCEPT ![p] = label]
  /\ loc' = [loc EXCEPT ![p] = l]

Effect(l, e) == [l EXCEPT !.afx = @ \cup {e}]

(***************************************************************************)
(* Moderator actions and triggers.                                         *)
(***************************************************************************)
RECURSIVE SumUpTo(_, _)
SumUpTo(f, n) == IF n = 0 THEN 0 ELSE f[n] + SumUpTo(f, n - 1)

Pending == SumUpTo(jobs, MaxRound)

(* cancelScheduledRound: a placeholder that logs the job name and cancels  *)
(* nothing                                                                 *)
CancelScheduledRound(js, r) == js

(* cancelAllScheduledRounds: cancelScheduledRound for the rounds from to   *)
(* upTo (the current round and the five rounds after it)                   *)
RECURSIVE CancelRounds(_, _, _)
CancelRounds(js, from, upTo) ==
  IF from > upTo THEN js
  ELSE CancelRounds(CancelScheduledRound(js, from), from + 1, upTo)

CancelAllScheduledRounds(js, gs) ==
  IF ~gs.exists THEN js ELSE CancelRounds(js, gs.roundNumber, gs.roundNumber + 5)

(* scheduleNextRound: cancelScheduledRound(roundNumber), then              *)
(* context.scheduler.runJob, one more pending job for the round            *)
RunJob(r) == [CancelScheduledRound(jobs, r) EXCEPT ![r] = @ + 1]

(* RedisManager.clearGameData                                              *)
ClearedVotes(vd, gs) ==
  [r \in Rounds |-> IF gs.exists /\ r <= gs.roundNumber THEN NoVoteData ELSE vd[r]]

(* 'Start Game' menu item: handleStoryUpload, handleStartGame              *)
(* (initializeNewGame, initializeGameScheduler unless manualOnly or the    *)
(* scheduling fails), then createStoryRoundPost for the first round.       *)
StartGame(duration, testMode, scheduled, posted) ==
  /\ ~(gameState.exists /\ gameState.isActive)
  /\ scheduled => Pending < MaxJobs
  /\ gameState' = NewGameState(Story.startNodeId, duration, testMode, now)
  /\ config' = [exists |-> TRUE, roundDurationHours |-> duration, isGameActive |-> TRUE]
  /\ voteData' = [ClearedVotes(voteData, gameState) EXCEPT
                    ![1] = IF posted
                           THEN [exists |-> TRUE, choices |-> ObjectKeys(ChoiceIdSeq(Story.startNodeId))]
                           ELSE ClearedVotes(voteData, gameState)[1]]
  /\ jobs' = IF scheduled THEN RunJob(1) ELSE jobs
  /\ advances' = 0
  /\ UNCHANGED << now, vcConfig, tally, story, timing, pc, loc >>

(* 'Stop Game' menu item: SettingsHandler.handleResetGame                  *)
ResetGame ==
  /\ gameState.exists
  /\ gameState' = NoGameState
  /\ voteData' = ClearedVotes(voteData, gameState)
  /\ config' = IF config.exists THEN [config EXCEPT !.isGameActive = FALSE] ELSE config
  /\ jobs' = CancelAllScheduledRounds(jobs, gameState)
  /\ UNCHANGED << now, vcConfig, tally, story, timing, pc, loc, advances >>

(* a direct call of StoryEngine.resetGame(): clearGameData, then           *)
(* initializeNewGame(startNodeId, config.subredditName,                    *)
(* config.roundDurationHours) with testMode left at its default            *)
StoryEngineResetGame ==
  /\ config.exists
  /\ gameState' = NewGameState(Story.startNodeId, config.roundDurationHours, FALSE, now)
  /\ config' = [exists |-> TRUE, roundDurationHours |-> config.roundDurationHours,
                isGameActive |-> TRUE]
  /\ voteData' = ClearedVotes(voteData, gameState)
  /\ advances' = 0
  /\ UNCHANGED << jobs, now, vcConfig, tally, story, timing, pc, loc >>

Tick ==
  /\ now < MaxTime
  /\ now' = now + 1
  /\ UNCHANGED << store, vcConfig, tally, story, timing, pc, loc, advances >>

(* the scheduler runs a pending job: handleRoundAdvancement(event)         *)
TimerFire(p, r) ==
  /\ pc[p] = "idle"
  /\ jobs[r] > 0
  /\ jobs' = [jobs EXCEPT ![r] = @ - 1]
  /\ Goto(p, "H_check", [IdleLoc EXCEPT !.kind = "timer", !.crn = r])
  /\ UNCHANGED << gameState, config, voteData, now, vcConfig, tally, story, timing, advances >>

(* 'Advance Round' menu item: handleRoundAdvancement without roundNumber   *)
MenuAdvance(p) ==
  /\ pc[p] = "idle"
  /\ Goto(p, "H_resolve", [IdleLoc EXCEPT !.kind = "menu"])
  /\ UNCHANGED << store, now, vcConfig, tally, story, timing, advances >>

(* manualRoundAdvancement(roundNumber)                                     *)
ManualAdvance(p, r) ==
  /\ pc[p] = "idle"
  /\ Goto(p, "M_check", [IdleLoc EXCEPT !.kind = "manual", !.crn = r])
  /\ UNCHANGED << store, now, vcConfig, tally, story, timing, advances >>

(* getNextScheduledRound / isRoundAdvancementDue: the round end is         *)
(* roundStartTime + roundDurationHours hours; the clock counts hours       *)
IsRoundAdvancementDue(gs, t) ==
  gs.exists /\ gs.isActive /\ gs.roundStartTime + gs.roundDurationHours - t <= 0

(* 'Force Schedule Check' menu item: an overdue round is advanced with     *)
(* manualRoundAdvancement(gameState.roundNumber), otherwise the job for    *)
(* the current round is scheduled again                                    *)
ForceScheduleCheck(p, jobOk) ==
  /\ pc[p] = "idle"
  /\ gameState.exists /\ gameState.isActive
  /\ IF IsRoundAdvancementDue(gameState, now)
     THEN /\ Goto(p, "M_check", [IdleLoc EXCEPT !.kind = "manual",
                                                !.crn = gameState.roundNumber])
          /\ jobs' = jobs
     ELSE /\ jobOk => Pending < MaxJobs
          /\ jobs' = IF jobOk /\ gameState.roundDurationHours > 0
                     THEN RunJob(gameState.roundNumber) ELSE jobs
          /\ UNCHANGED << pc, loc >>
  /\ UNCHANGED << gameState, config, voteData, now, vcConfig, tally, story, timing, advances >>

(* a direct call of StoryEngine.advanceStoryByChoice(choiceId)             *)
AdvanceCall(p, c) ==
  /\ pc[p] = "idle"
  /\ Goto(p, "A_node", [IdleLoc EXCEPT !.kind = "adv", !.winner = c, !.attempt = 1])
  /\ UNCHANGED << store, now, vcConfig, tally, story, timing, advances >>

(* the handler's promise has settled                                       *)
Return(p) ==
  /\ pc[p] = "done"
  /\ Goto(p, "idle", IdleLoc)
  /\ UNCHANGED << store, now, vcConfig, tally, story, timing, advances >>

(***************************************************************************)
(* SchedulerHandler.handleRoundAdvancement and manualRoundAdvancement.     *)
(***************************************************************************)
(* faulty variant of AttemptFailed: handleRoundAdvancement returns the     *)
(* no-winner result at once instead of throwing it into the retry loop     *)
AttemptFailedNoWinnerFinal(l, oc) ==
  IF l.kind \in {"timer", "menu"} /\ oc # "nowinner"
  THEN IF l.attempt < maxRetries
       THEN [pc |-> "E_tally", loc |-> [l EXCEPT !.attempt = @ + 1, !.outcome = oc]]
       ELSE [pc |-> "done", loc |-> [l EXCEPT !.outcome = oc, !.result = "exhausted"]]
  ELSE [pc |-> "done", loc |-> [l EXCEPT !.outcome = oc, !.result = "failed"]]

(* faulty variant of AttemptFailed: the loop runs one attempt more than    *)
(* maxRetries                                                              *)
AttemptFailedOneMore(l, oc) ==
  IF l.kind \in {"timer", "menu"}
  THEN IF l.attempt <= maxRetries
       THEN [pc |-> "E_tally", loc |-> [l EXCEPT !.attempt = @ + 1, !.outcome = oc]]
       ELSE [pc |-> "done", loc |-> [l EXCEPT !.outcome = oc, !.result = "exhausted"]]
  ELSE [pc |-> "done", loc |-> [l EXCEPT !.outcome = oc, !.result = "failed"]]

(* an attempt of executeRoundAdvancement has failed (a failure result or   *)
(* an exception): handleRoundAdvancement catches it and runs the next      *)
(* attempt while attempt < maxRetries; manualRoundAdvancement and a direct *)
(* call report the failure                                                 *)
AttemptFailed(l, oc) ==
  IF l.kind \in {"timer", "menu"}
  THEN IF l.attempt < maxRetries
       THEN [pc |-> "E_tally", loc |-> [l EXCEPT !.attempt = @ + 1, !.outcome = oc]]
       ELSE [pc |-> "done", loc |-> [l EXCEPT !.outcome = oc, !.result = "exhausted"]]
  ELSE [pc |-> "done", loc |-> [l EXCEPT !.outcome = oc, !.result = "failed"]]

AttemptSucceeded(l) ==
  [pc |-> "done", loc |-> [l EXCEPT !.outcome = "ok", !.result = "success"]]

Become(p, nxt) == Goto(p, nxt.pc, nxt.loc)

(* handleRoundAdvancement, no round number in the event: take the round    *)
(* number of the stored state                                              *)
HandleRoundAdvancement_resolve(p) ==
  /\ pc[p] = "H_resolve"
  /\ IF gameState.exists /\ gameState.isActive
     THEN Goto(p, "H_check", [loc[p] EXCEPT !.crn = gameState.roundNumber])
     ELSE Goto(p, "done", [loc[p] EXCEPT !.result = "noactive"])
  /\ UNCHANGED << store, now, vcConfig, tally, story, timing, advances >>

(* faulty variant of RoundCheck: the isActive flag is not looked at        *)
RoundCheckRoundOnly(gs, roundNumber) ==
  IF ~gs.exists THEN "inactive"
  ELSE IF gs.roundNumber # roundNumber THEN "mismatch"
  ELSE "current"

(* faulty variant of RoundCheck: the round number is not compared          *)
RoundCheckActiveOnly(gs, roundNumber) ==
  IF ~gs.exists \/ ~gs.isActive THEN "inactive" ELSE "current"

(* the outcome of the two checks on the stored state                       *)
RoundCheck(gs, roundNumber) ==
  IF ~gs.exists \/ ~gs.isActive THEN "inactive"
  ELSE IF gs.roundNumber # roundNumber THEN "mismatch"
  ELSE "current"

(* handleRoundAdvancement: game still active, job is for the current round *)
HandleRoundAdvancement_check(p) ==
  /\ pc[p] = "H_check"
  /\ LET chk == RoundCheck(gameState, loc[p].crn)
         l == [loc[p] EXCEPT !.pre = gameState]
     IN  IF chk = "current"
         THEN Goto(p, "E_tally", [l EXCEPT !.attempt = 1])
         ELSE Goto(p, "done", [l EXCEPT !.result = chk])
  /\ UNCHANGED << store, now, vcConfig, tally, story, timing, advances >>

(* manualRoundAdvancement: the same two checks, then a single attempt      *)
ManualRoundAdvancement_check(p) ==
  /\ pc[p] = "M_check"
  /\ LET chk == RoundCheck(gameState, loc[p].crn)
         l == [loc[p] EXCEPT !.pre = gameState]
     IN  IF chk = "current"
         THEN Goto(p, "E_tally", [l EXCEPT !.attempt = 1])
         ELSE Goto(p, "done", [l EXCEPT !.result = chk])
  /\ UNCHANGED << store, now, vcConfig, tally, story, timing, advances >>

(***************************************************************************)
(* SchedulerHandler.executeRoundAdvancement, step 1: getWinningChoice.     *)
(***************************************************************************)
FetchOutcomes == Scores \cup {FetchFailed}

ScoreOf(x) == IF x = FetchFailed THEN 0 ELSE x

(* what the fetched scores say, read off the vote record directly: the     *)
(* tracked choice whose score is above every other and at least            *)
(* minimumVotes ("none" when there is no such choice or a score could not  *)
(* be fetched), and whether no tracked choice reaches minimumVotes         *)
UniqueTop(vd, fetched, minimumVotes) ==
  LET idx == 1..Len(vd.choices)
      tops == {i \in idx : /\ ScoreOf(fetched[i]) >= minimumVotes
                           /\ \A j \in idx \ {i} : ScoreOf(fetched[i]) > ScoreOf(fetched[j])}
  IN  IF vd.exists /\ tops # {} /\ (\A i \in idx : fetched[i] # FetchFailed)
      THEN vd.choices[CHOOSE i \in tops : TRUE] ELSE "none"

NoneValid(vd, fetched, minimumVotes) ==
  ~vd.exists \/ \A i \in 1..Len(vd.choices) : ScoreOf(fetched[i]) < minimumVotes

ExecuteRoundAdvancement_tally(p) ==
  /\ pc[p] = "E_tally"
  /\ LET vd == voteData[loc[p].crn]
     IN  \E fetched \in [1..Len(vd.choices) -> FetchOutcomes] :
           LET voteResults == CountVotes(vd, fetched)
           IN  \E w \in WinningChoices(voteResults, vcConfig.minimumVotes,
                                       vcConfig.randomTieBreaking) :
                 LET l == [loc[p] EXCEPT
                             !.winner = w, !.outcome = "running",
                             !.attemptPre = gameState,
                             !.seenNode = "none", !.landed = "none",
                             !.afx = {"tally"},
                             !.top = UniqueTop(vd, fetched, vcConfig.minimumVotes),
                             !.noValid = NoneValid(vd, fetched, vcConfig.minimumVotes)]
                 IN  IF w = "none"
                     THEN Become(p, AttemptFailed(l, "nowinner"))
                     ELSE Goto(p, "A_node", l)
  /\ UNCHANGED << store, now, vcConfig, tally, story, timing, advances >>

(***************************************************************************)
(* StoryEngine.advanceStoryByChoice.                                       *)
(***************************************************************************)
(* getCurrentNode and the lookup of the selected choice: "throw" or the    *)
(* nextNodeId of the selected choice                                       *)
SelectedChoice(gs, choiceId) ==
  IF ~gs.exists \/ ~gs.isActive THEN [found |-> FALSE, nextNodeId |-> "none"]
  ELSE IF Len(Story.nodes[gs.currentNodeId].choices) = 0
       THEN [found |-> FALSE, nextNodeId |-> "none"]
       ELSE FindChoice(gs.currentNodeId, choiceId)

AdvanceStoryByChoice_node(p) ==
  /\ pc[p] = "A_node"
  /\ LET sel == SelectedChoice(gameState, loc[p].winner)
         l == [loc[p] EXCEPT !.seenNode = IF gameState.exists /\ gameState.isActive
                                          THEN gameState.currentNodeId ELSE "none",
                             !.attemptPre = IF loc[p].kind = "adv" THEN gameState ELSE @]
     IN  IF sel.found
         THEN Goto(p, "A_read", [l EXCEPT !.selNext = sel.nextNodeId])
         ELSE Become(p, AttemptFailed(l, "threw"))
  /\ UNCHANGED << store, now, vcConfig, tally, story, timing, advances >>

(* getGameState again, then the update of the object just read             *)
AdvanceStoryByChoice_read(p) ==
  /\ pc[p] = "A_read"
  /\ IF ~gameState.exists
     THEN Become(p, AttemptFailed(loc[p], "threw"))
     ELSE /\ gameState.roundNumber < MaxRound
          /\ Len(gameState.storyPath) < MaxPath
          /\ Goto(p, "A_write",
                  [loc[p] EXCEPT !.gs = AdvancedState(gameState, loc[p].selNext, now)])
  /\ UNCHANGED << store, now, vcConfig, tally, story, timing, advances >>

(* setGameState(gameState)                                                 *)
AdvanceStoryByChoice_write(p) ==
  /\ pc[p] = "A_write"
  /\ gameState' = loc[p].gs
  /\ advances' = IF advances < MaxRound THEN advances + 1 ELSE advances
  /\ LET l == Effect([loc[p] EXCEPT !.gs = NoGameState], "advance")
     IN  IF l.kind = "adv"
         THEN Become(p, AttemptSucceeded(l))
         ELSE Goto(p, "E_node", l)
  /\ UNCHANGED << config, voteData, jobs, now, vcConfig, tally, story, timing >>

(***************************************************************************)
(* executeRoundAdvancement, steps 3 and 4: the node now current.           *)
(***************************************************************************)
(* getCurrentNode after the advancement: null when no active game          *)
ExecuteRoundAdvancement_node(p) ==
  /\ pc[p] = "E_node"
  /\ IF ~gameState.exists \/ ~gameState.isActive
     THEN Become(p, AttemptFailed(loc[p], "threw"))
     ELSE LET l == [loc[p] EXCEPT !.landed = gameState.currentNodeId]
          IN  IF Story.nodes[gameState.currentNodeId].isEnd
              THEN Goto(p, "R_state", l)
              ELSE Goto(p, "P_state", l)
  /\ UNCHANGED << store, now, vcConfig, tally, story, timing, advances >>

(***************************************************************************)
(* End node: PostManager.createEndGameRecapPost, RedisManager.completeGame *)
(***************************************************************************)
(* getGameState and getConfiguration before the recap                      *)
ExecuteRoundAdvancement_recapState(p) ==
  /\ pc[p] = "R_state"
  /\ IF ~gameState.exists \/ ~config.exists
     THEN Become(p, AttemptFailed(loc[p], "threw"))
     ELSE Goto(p, "R_meta", loc[p])
  /\ UNCHANGED << store, now, vcConfig, tally, story, timing, advances >>

(* createEndGameRecapPost: getGameState                                    *)
CreateEndGameRecapPost_state(p) ==
  /\ pc[p] = "R_meta"
  /\ LET l == Effect(loc[p], "finalize")
     IN  IF ~gameState.exists
         THEN Become(p, AttemptFailed(l, "recapfail"))
         ELSE Goto(p, "R_node", l)
  /\ UNCHANGED << store, now, vcConfig, tally, story, timing, advances >>

(* createEndGameRecapPost: getCurrentNode must be an end node, then the    *)
(* recap post is submitted                                                 *)
CreateEndGameRecapPost_post(p, postOk) ==
  /\ pc[p] = "R_node"
  /\ IF \/ ~gameState.exists \/ ~gameState.isActive
        \/ ~Story.nodes[gameState.currentNodeId].isEnd
     THEN Become(p, AttemptFailed(loc[p], "recapfail"))
     ELSE IF postOk
          THEN Goto(p, "C_read", Effect(loc[p], "recap"))
          ELSE Become(p, AttemptFailed(loc[p], "recapfail"))
  /\ UNCHANGED << store, now, vcConfig, tally, story, timing, advances >>

(* completeGame: getGameState                                              *)
CompleteGame_read(p) ==
  /\ pc[p] = "C_read"
  /\ IF ~gameState.exists
     THEN Become(p, AttemptSucceeded(loc[p]))
     ELSE Goto(p, "C_write", [loc[p] EXCEPT !.gs = CompletedState(gameState)])
  /\ UNCHANGED << store, now, vcConfig, tally, story, timing, advances >>

(* completeGame: setGameState, then config.isGameActive = false            *)
CompleteGame_write(p) ==
  /\ pc[p] = "C_write"
  /\ gameState' = loc[p].gs
  /\ config' = IF config.exists THEN [config EXCEPT !.isGameActive = FALSE] ELSE config
  /\ Become(p, AttemptSucceeded(Effect([loc[p] EXCEPT !.gs = NoGameState], "complete")))
  /\ UNCHANGED << voteData, jobs, now, vcConfig, tally, story, timing, advances >>

(***************************************************************************)
(* Other node: PostManager.createStoryRoundPost, rollback, scheduling.     *)
(***************************************************************************)
(* getGameState and getConfiguration, gameStateBeforePost = {...gameState} *)
ExecuteRoundAdvancement_postState(p) ==
  /\ pc[p] = "P_state"
  /\ IF ~gameState.exists \/ ~config.exists
     THEN Become(p, AttemptFailed(loc[p], "threw"))
     ELSE Goto(p, "P_node", [loc[p] EXCEPT !.snap = gameState])
  /\ UNCHANGED << store, now, vcConfig, tally, story, timing, advances >>

(* createStoryRoundPost: getCurrentNode                                    *)
CreateStoryRoundPost_node(p) ==
  /\ pc[p] = "P_node"
  /\ LET l == Effect(loc[p], "publish")
     IN  IF ~gameState.exists \/ ~gameState.isActive
         THEN Goto(p, "B_restore", l)
         ELSE Goto(p, "P_gs", [l EXCEPT !.pmNode = gameState.currentNodeId])
  /\ UNCHANGED << store, now, vcConfig, tally, story, timing, advances >>

(* createStoryRoundPost: getGameState, createRedditPost and, for a node    *)
(* with choices, createChoiceComments                                      *)
CreateStoryRoundPost_post(p, postOk, commentsOk) ==
  /\ pc[p] = "P_gs"
  /\ IF ~gameState.exists
     THEN Goto(p, "B_restore", loc[p])
     ELSE LET l == [loc[p] EXCEPT !.pmRound = gameState.roundNumber]
              n == Story.nodes[loc[p].pmNode]
          IN  IF ~postOk
              THEN Goto(p, "B_restore", l)
              ELSE IF ~n.isEnd /\ Len(n.choices) > 0
                   THEN IF commentsOk
                        THEN Goto(p, "P_map", Effect(l, "posted"))
                        ELSE Goto(p, "B_restore", Effect(l, "posted"))
                   ELSE Goto(p, "S_sched", Effect(l, "posted"))
  /\ UNCHANGED << store, now, vcConfig, tally, story, timing, advances >>

(* storeChoiceCommentMapping: getGameState                                 *)
StoreChoiceCommentMapping_read(p) ==
  /\ pc[p] = "P_map"
  /\ IF ~gameState.exists
     THEN Goto(p, "B_restore", loc[p])
     ELSE Goto(p, "P_store", loc[p])
  /\ UNCHANGED << store, now, vcConfig, tally, story, timing, advances >>

(* storeChoiceCommentMapping: setVoteData(roundNumber, voteData)           *)
StoreChoiceCommentMapping_write(p) ==
  /\ pc[p] = "P_store"
  /\ voteData' = [voteData EXCEPT ![loc[p].pmRound] =
                    [exists |-> TRUE, choices |-> ObjectKeys(ChoiceIdSeq(loc[p].pmNode))]]
  /\ Goto(p, "S_sched", Effect(loc[p], "votes"))
  /\ UNCHANGED << gameState, config, jobs, now, vcConfig, tally, story, timing, advances >>

(* rollback: setGameState(gameStateBeforePost)                             *)
Rollback_restore(p) ==
  /\ pc[p] = "B_restore"
  /\ gameState' = loc[p].snap
  /\ Goto(p, "B_nav", Effect(loc[p], "restore"))
  /\ UNCHANGED << config, voteData, jobs, now, vcConfig, tally, story, timing, advances >>

(* rollback: navigateToNode(gameStateBeforePost.currentNodeId), read       *)
NavigateToNode_read(p) ==
  /\ pc[p] = "B_nav"
  /\ IF ~gameState.exists
     THEN Become(p, AttemptFailed(loc[p], "pubfail"))
     ELSE LET g == NavigatedState(gameState, loc[p].snap.currentNodeId)
          IN  /\ Len(g.storyPath) <= MaxPath
              /\ Goto(p, "B_write", [loc[p] EXCEPT !.gs = g])
  /\ UNCHANGED << store, now, vcConfig, tally, story, timing, advances >>

(* rollback: navigateToNode, setGameState; then the publish failure is     *)
(* thrown                                                                  *)
NavigateToNode_write(p) ==
  /\ pc[p] = "B_write"
  /\ gameState' = loc[p].gs
  /\ Become(p, AttemptFailed([loc[p] EXCEPT !.gs = NoGameState], "pubfail"))
  /\ UNCHANGED << config, voteData, jobs, now, vcConfig, tally, story, timing, advances >>

(* faulty variant of ActualDurationMinutes: the test mode is not looked at *)
ActualDurationAlwaysHours(durationHours, gs) == durationHours * 60

(* scheduleNextRound, actualDurationMs (here in minutes): durationHours    *)
(* counts minutes when the stored game state is in test mode, hours        *)
(* otherwise                                                               *)
ActualDurationMinutes(durationHours, gs) ==
  IF gs.exists /\ gs.testMode THEN durationHours ELSE durationHours * 60

(* step 5: scheduleNextRound(gameState.roundDurationHours,                 *)
(* gameState.roundNumber) on the state read before the post; a failure to  *)
(* schedule is logged only                                                 *)
ScheduleNextRound(p, jobOk) ==
  /\ pc[p] = "S_sched"
  /\ LET g == loc[p].snap
         valid == g.roundDurationHours > 0 /\ g.roundNumber > 0
     IN  IF valid /\ jobOk
         THEN /\ Pending < MaxJobs
              /\ jobs' = RunJob(g.roundNumber)
              /\ Become(p, AttemptSucceeded(
                    [Effect(Effect(loc[p], "schedule"), "job") EXCEPT
                       !.runIn = ActualDurationMinutes(g.roundDurationHours, gameState)]))
         ELSE /\ jobs' = jobs
              /\ Become(p, AttemptSucceeded(Effect(loc[p], "schedule")))
  /\ UNCHANGED << gameState, config, voteData, now, vcConfig, tally, story, timing, advances >>

(***************************************************************************)
(* Specifications.                                                         *)
(***************************************************************************)
(* the steps of one attempt of executeRoundAdvancement (or of a direct     *)
(* advanceStoryByChoice); Oks are the outcomes the calls to Reddit and to  *)
(* the scheduler may have                                                  *)
Attempt(p, Oks) ==
  \/ ExecuteRoundAdvancement_tally(p)
  \/ AdvanceStoryByChoice_node(p)
  \/ AdvanceStoryByChoice_read(p)
  \/ AdvanceStoryByChoice_write(p)
  \/ ExecuteRoundAdvancement_node(p)
  \/ ExecuteRoundAdvancement_recapState(p)
  \/ CreateEndGameRecapPost_state(p)
  \/ \E ok \in Oks : CreateEndGameRecapPost_post(p, ok)
  \/ CompleteGame_read(p)
  \/ CompleteGame_write(p)
  \/ ExecuteRoundAdvancement_postState(p)
  \/ CreateStoryRoundPost_node(p)
  \/ \E ok \in Oks, cok \in Oks : CreateStoryRoundPost_post(p, ok, cok)
  \/ StoreChoiceCommentMapping_read(p)
  \/ StoreChoiceCommentMapping_write(p)
  \/ Rollback_restore(p)
  \/ NavigateToNode_read(p)
  \/ NavigateToNode_write(p)
  \/ \E ok \in Oks : ScheduleNextRound(p, ok)

Step(p) ==
  \/ HandleRoundAdvancement_resolve(p)
  \/ HandleRoundAdvancement_check(p)
  \/ ManualRoundAdvancement_check(p)
  \/ Attempt(p, BOOLEAN)
  \/ Return(p)

AllIdle == \A p \in Procs : pc[p] = "idle"

(* one handler at a time: a trigger is served, by p1, when no handler is   *)
(* running                                                                 *)
Serving == IF AllIdle THEN {"p1"} ELSE {}

Next ==
  \/ \E d \in Durations, tm \in TestModes, sch \in BOOLEAN, post \in BOOLEAN :
        AllIdle /\ StartGame(d, tm, sch, post)
  \/ AllIdle /\ ResetGame
  \/ \E p \in Serving, ok \in BOOLEAN : ForceScheduleCheck(p, ok)
  \/ \E p \in Serving, r \in Rounds : TimerFire(p, r)
  \/ \E p \in Serving : MenuAdvance(p)
  \/ \E p \in Serving, r \in Rounds : ManualAdvance(p, r)
  \/ \E p \in Serving, c \in ChoiceIds : AdvanceCall(p, c)
  \/ Tick
  \/ \E p \in Procs : Step(p)

(* the engine with its handlers run one after the other                    *)
Spec == Init /\ [][Next]_vars

(* handlers are interchangeable: a job is served by p1 when p1 is idle, by *)
(* p2 otherwise                                                            *)
Free == {p \in Procs : pc[p] = "idle" /\ (p = "p1" \/ pc["p1"] # "idle")}

(* a started game whose first round has two pending jobs (the one          *)
(* scheduled at the start and the one 'Force Schedule Check' added)        *)
InitConc ==
  /\ gameState = NewGameState(Story.startNodeId, 1, FALSE, 0)
  /\ config = [exists |-> TRUE, roundDurationHours |-> 1, isGameActive |-> TRUE]
  /\ voteData = [r \in Rounds |->
                   IF r = 1
                   THEN [exists |-> TRUE, choices |-> ObjectKeys(ChoiceIdSeq(Story.startNodeId))]
                   ELSE NoVoteData]
  /\ jobs = [r \in Rounds |-> IF r = 1 THEN 2 ELSE 0]
  /\ now = 0
  /\ vcConfig = [minimumVotes |-> 0, randomTieBreaking |-> TRUE]
  /\ pc = [p \in Procs |-> "idle"]
  /\ loc = [p \in Procs |-> IdleLoc]
  /\ advances = 0
  /\ tally = NoTally
  /\ timing = NoTiming
  /\ story = NoUpload

NextConc ==
  \/ \E p \in Free, r \in Rounds : TimerFire(p, r)
  \/ \E p \in Procs : HandleRoundAdvancement_check(p)
  \/ \E p \in Procs : Attempt(p, {TRUE})
  \/ \E p \in Procs : Return(p)

(* overlapping handlers: the pending jobs fire while another firing may    *)
(* still be running; posts, comments and scheduling succeed                *)
SpecConc == InitConc /\ [][NextConc]_vars

(* the life cycle of a game in either duration unit: starts, resets by     *)
(* 'Stop Game' and by StoryEngine.resetGame, and rounds advanced with      *)
(* 'Advance Round', one handler at a time                                  *)
NextLife ==
  \/ \E d \in Durations, tm \in BOOLEAN, sch \in BOOLEAN, post \in BOOLEAN :
        AllIdle /\ StartGame(d, tm, sch, post)
  \/ AllIdle /\ ResetGame
  \/ AllIdle /\ StoryEngineResetGame
  \/ \E p \in Serving : MenuAdvance(p)
  \/ \E p \in Procs : HandleRoundAdvancement_resolve(p)
  \/ \E p \in Procs : HandleRoundAdvancement_check(p)
  \/ \E p \in Procs : Attempt(p, BOOLEAN)
  \/ \E p \in Procs : Return(p)

SpecLife == Init /\ [][NextLife]_vars

(* games started with 'Manual Advancement Only': handleStartGame skips     *)
(* initializeGameScheduler; rounds are advanced with 'Advance Round', and  *)
(* the scheduler runs whatever job is pending                              *)
NextManual ==
  \/ \E d \in Durations, tm \in TestModes, post \in BOOLEAN :
        AllIdle /\ StartGame(d, tm, FALSE, post)
  \/ AllIdle /\ ResetGame
  \/ \E p \in Serving : MenuAdvance(p)
  \/ \E p \in Serving, r \in Rounds : TimerFire(p, r)
  \/ \E p \in Procs : HandleRoundAdvancement_resolve(p)
  \/ \E p \in Procs : HandleRoundAdvancement_check(p)
  \/ \E p \in Procs : Attempt(p, BOOLEAN)
  \/ \E p \in Procs : Return(p)

SpecManual == Init /\ [][NextManual]_vars

(* the engine under a runtime that keeps running a handler it has started: *)
(* every await of a handler settles (a failed call settles by throwing)    *)
SpecFair == Init /\ [][Next]_vars /\ \A p \in Procs : WF_vars(Step(p))

(* after 'Stop Game' on a game whose first round had been scheduled: the   *)
(* game state is deleted and the job for round 1 is still pending          *)
(* (cancelScheduledRound cancels nothing)                                  *)
InitStale ==
  /\ gameState = NoGameState
  /\ config = [exists |-> TRUE, roundDurationHours |-> 1, isGameActive |-> FALSE]
  /\ voteData = [r \in Rounds |-> NoVoteData]
  /\ jobs = CancelAllScheduledRounds(
              [r \in Rounds |-> IF r = 1 THEN 1 ELSE 0],
              NewGameState(Story.startNodeId, 1, FALSE, 0))
  /\ now = 0
  /\ vcConfig \in VoteCounterConfigs
  /\ pc = [p \in Procs |-> "idle"]
  /\ loc = [p \in Procs |-> IdleLoc]
  /\ advances = 0
  /\ tally = NoTally
  /\ timing = NoTiming
  /\ story = NoUpload

(* games started after that reset without a timer of their own (manualOnly *)
(* or initializeGameScheduler failed), while the scheduler runs the jobs   *)
(* that are pending                                                        *)
NextStale ==
  \/ \E d \in Durations, tm \in TestModes, post \in BOOLEAN :
        AllIdle /\ StartGame(d, tm, FALSE, post)
  \/ AllIdle /\ ResetGame
  \/ \E p \in Serving, r \in Rounds : TimerFire(p, r)
  \/ \E p \in Procs : HandleRoundAdvancement_check(p)
  \/ \E p \in Procs : Attempt(p, BOOLEAN)
  \/ \E p \in Procs : Return(p)

SpecStale == InitStale /\ [][NextStale]_vars

(* a started game whose first round has one pending job                    *)
InitRace ==
  /\ gameState = NewGameState(Story.startNodeId, 1, FALSE, 0)
  /\ config = [exists |-> TRUE, roundDurationHours |-> 1, isGameActive |-> TRUE]
  /\ voteData = [r \in Rounds |->
                   IF r = 1
                   THEN [exists |-> TRUE, choices |-> ObjectKeys(ChoiceIdSeq(Story.startNodeId))]
                   ELSE NoVoteData]
  /\ jobs = [r \in Rounds |-> IF r = 1 THEN 1 ELSE 0]
  /\ now = 0
  /\ vcConfig \in VoteCounterConfigs
  /\ pc = [p \in Procs |-> "idle"]
  /\ loc = [p \in Procs |-> IdleLoc]
  /\ advances = 0
  /\ tally = NoTally
  /\ timing = NoTiming
  /\ story = NoUpload

(* 'Stop Game' pressed at any moment, also while a firing is running       *)
NextRace ==
  \/ ResetGame
  \/ \E p \in Serving, r \in Rounds : TimerFire(p, r)
  \/ \E p \in Procs : HandleRoundAdvancement_check(p)
  \/ \E p \in Procs : Attempt(p, BOOLEAN)
  \/ \E p \in Procs : Return(p)

SpecRace == InitRace /\ [][NextRace]_vars

(***************************************************************************)
(* Story upload and game start on an arbitrary story graph.                *)
(***************************************************************************)
(* 'Start Game' menu item with the graph of the storyJson setting:         *)
(* handleStoryUpload (validateStoryJson, setStoryData), then               *)
(* handleStartGame (active check, initializeNewGame, loadStory,            *)
(* initializeGameScheduler), then createStoryRoundPost                     *)
StartGamePress(duration, testMode, scheduled, posted) ==
  LET g == story.settings
      errs == ValidateStoryJson(g)
      thrown == LoadStoryError(g)
      uploaded == [story EXCEPT !.hasStory = TRUE, !.stored = g,
                                !.errors = {}, !.thrown = NoError]
      start == g.nodes[g.startNodeId]
      cleared == ClearedVotes(voteData, gameState)
  IN  /\ IF errs # {}
         THEN /\ story' = [story EXCEPT !.errors = errs, !.thrown = NoError,
                                        !.result = "uploadFailed"]
              /\ UNCHANGED << store, advances >>
         ELSE IF gameState.exists /\ gameState.isActive
         THEN /\ story' = [uploaded EXCEPT !.result = "alreadyActive"]
              /\ UNCHANGED << store, advances >>
         ELSE /\ gameState' = NewGameState(g.startNodeId, duration, testMode, now)
              /\ config' = [exists |-> TRUE, roundDurationHours |-> duration,
                            isGameActive |-> TRUE]
              /\ advances' = 0
              /\ IF thrown # NoError
                 THEN /\ story' = [uploaded EXCEPT !.thrown = thrown,
                                                   !.result = "startFailed"]
                      /\ voteData' = cleared
                      /\ jobs' = jobs
                 ELSE /\ story' = [uploaded EXCEPT !.result = "started"]
                      /\ scheduled => Pending < MaxJobs
                      /\ jobs' = IF scheduled THEN RunJob(1) ELSE jobs
                      /\ voteData' =
                           IF posted /\ ~start.isEnd /\ Len(start.choices) > 0
                           THEN [cleared EXCEPT ![1] =
                                   [exists |-> TRUE,
                                    choices |->
                                      ObjectKeys([i \in 1..Len(start.choices) |->
                                                    start.choices[i].id])]]
                           ELSE cleared
      /\ UNCHANGED << now, vcConfig, tally, timing, pc, loc >>

(* a direct call of StoryEngine.loadStory with the graph of the setting    *)
LoadStory ==
  LET g == story.settings
      thrown == LoadStoryError(g)
  IN  /\ story' = IF thrown = NoError
                  THEN [story EXCEPT !.hasStory = TRUE, !.stored = g, !.errors = {},
                                     !.thrown = NoError, !.result = "loaded"]
                  ELSE [story EXCEPT !.errors = {}, !.thrown = thrown,
                                     !.result = "loadFailed"]
      /\ UNCHANGED << store, now, vcConfig, tally, timing, pc, loc, advances >>

(* the moderator saves another graph in the storyJson setting (at most     *)
(* MaxEdits times)                                                         *)
EditSettings(g) ==
  /\ g # story.settings
  /\ story.edits < MaxEdits
  /\ story' = [story EXCEPT !.settings = g, !.edits = @ + 1]
  /\ UNCHANGED << store, now, vcConfig, tally, timing, pc, loc, advances >>

InitStory ==
  /\ gameState = NoGameState
  /\ config = NoConfig
  /\ voteData = [r \in Rounds |-> NoVoteData]
  /\ jobs = [r \in Rounds |-> 0]
  /\ now = 0
  /\ vcConfig = [minimumVotes |-> 0, randomTieBreaking |-> TRUE]
  /\ pc = [p \in Procs |-> "idle"]
  /\ loc = [p \in Procs |-> IdleLoc]
  /\ advances = 0
  /\ tally = NoTally
  /\ timing = NoTiming
  /\ story \in {[NoUpload EXCEPT !.settings = g] : g \in Graphs}

NextStory ==
  \/ \E d \in Durations, tm \in TestModes, sch \in BOOLEAN, post \in BOOLEAN :
        StartGamePress(d, tm, sch, post)
  \/ LoadStory
  \/ ResetGame

(* any story graph in the settings; the moderator presses 'Start Game' and *)
(* 'Stop Game'                                                             *)
SpecStory == InitStory /\ [][NextStory]_vars

NextEdit ==
  \/ \E d \in Durations, tm \in TestModes, post \in BOOLEAN :
        StartGamePress(d, tm, FALSE, post)
  \/ LoadStory
  \/ ResetGame
  \/ \E g \in Graphs : EditSettings(g)

(* the same with a moderator who changes the story in the settings between *)
(* the presses; games are started for manual advancement only              *)
SpecEdit == InitStory /\ [][NextEdit]_vars

(***************************************************************************)
(* What a finished handler reports.                                        *)
(***************************************************************************)
(* SchedulerResult.success of the result the handler returns: true for a   *)
(* completed advancement only; the results of the two checks ('Game is no  *)
(* longer active', 'Round mismatch: ...'), of a failed attempt and of the  *)
(* used-up retries all carry success: false and an error text              *)
ResultSuccess(result) == result = "success"

(* the onRun callback of the subquest_round_advance job: it throws when    *)
(* handleRoundAdvancement returns a result with success false              *)
JobThrows(l) == l.kind = "timer" /\ ~ResultSuccess(l.result)

(***************************************************************************)
(* VoteCounter.getWinningChoice on its own.                                *)
(***************************************************************************)
(* every minimumVotes up to one above the highest score, both tie-breakers *)
TallyConfigs == [minimumVotes : 0..(MaxScore + 1), randomTieBreaking : BOOLEAN]

(* getWinningChoice(gameState.roundNumber): getVoteData, one score fetch   *)
(* per tracked choice, countVotes, the minimumVotes filter and resolveTie  *)
GetWinningChoice ==
  /\ gameState.exists
  /\ LET vd == voteData[gameState.roundNumber]
     IN  \E fetched \in [1..Len(vd.choices) -> FetchOutcomes] :
           LET voteResults == CountVotes(vd, fetched)
           IN  \E w \in WinningChoices(voteResults, vcConfig.minimumVotes,
                                       vcConfig.randomTieBreaking) :
                 tally' = [called |-> TRUE, node |-> gameState.currentNodeId,
                           vd |-> vd, fetched |-> fetched,
                           voteResults |-> voteResults, winner |-> w]
  /\ UNCHANGED << store, now, vcConfig, pc, loc, advances, story, timing >>

(* a first round at any node of the story, its vote record stored by       *)
(* storeChoiceCommentMapping or missing, under any vote counter            *)
(* configuration                                                           *)
InitTally ==
  /\ \E n \in NodeIds, tracked \in BOOLEAN :
        /\ gameState = NewGameState(n, 1, FALSE, 0)
        /\ voteData = [r \in Rounds |->
                         IF r = 1 /\ tracked
                         THEN [exists |-> TRUE, choices |-> ObjectKeys(ChoiceIdSeq(n))]
                         ELSE NoVoteData]
  /\ config = [exists |-> TRUE, roundDurationHours |-> 1, isGameActive |-> TRUE]
  /\ jobs = [r \in Rounds |-> 0]
  /\ now = 0
  /\ vcConfig \in TallyConfigs
  /\ pc = [p \in Procs |-> "idle"]
  /\ loc = [p \in Procs |-> IdleLoc]
  /\ advances = 0
  /\ tally = NoTally
  /\ timing = NoTiming
  /\ story = NoUpload

NextTally == GetWinningChoice

(* the tally of a round, called again and again on the same vote record    *)
SpecTally == InitTally /\ [][NextTally]_vars

(***************************************************************************)
(* Round timing.  Times are counted in minutes: an hour is 60, a           *)
(* millisecond count of the code is its number of minutes.                 *)
(***************************************************************************)
Max0(x) == IF x > 0 THEN x ELSE 0

(* getTimeRemainingInRound, roundDurationMs: minutes in test mode, hours   *)
(* otherwise                                                               *)
RoundDuration(gs) ==
  IF gs.testMode THEN gs.roundDurationHours ELSE gs.roundDurationHours * 60

(* StoryEngine.getTimeRemainingInRound: 0 without an active game           *)
GetTimeRemainingInRound(gs, t) ==
  IF ~gs.exists \/ ~gs.isActive THEN 0
  ELSE Max0(RoundDuration(gs) - (t - gs.roundStartTime))

(* StoryEngine.isRoundExpired                                              *)
IsRoundExpired(gs, t) == GetTimeRemainingInRound(gs, t) <= 0

(* SchedulerHandler.getNextScheduledRound: null (scheduled = FALSE)        *)
(* without an active game; roundEndTime is roundStartTime +                *)
(* roundDurationHours * 60 * 60 * 1000                                     *)
GetNextScheduledRound(gs, t) ==
  IF ~gs.exists \/ ~gs.isActive
  THEN [scheduled |-> FALSE, scheduledTime |-> 0, timeRemaining |-> 0]
  ELSE LET roundEndTime == gs.roundStartTime + gs.roundDurationHours * 60
       IN  [scheduled |-> TRUE, scheduledTime |-> roundEndTime,
            timeRemaining |-> Max0(roundEndTime - t)]

(* SchedulerHandler.isRoundAdvancementDue on the result of                 *)
(* getNextScheduledRound                                                   *)
RoundAdvancementDue(scheduleInfo) ==
  scheduleInfo.scheduled /\ scheduleInfo.timeRemaining <= 0

(* storeChoiceCommentMapping and trackChoiceComment: the roundEndTime of   *)
(* the vote record they create                                             *)
VoteDataRoundEndTime(gs) == gs.roundStartTime + gs.roundDurationHours * 60

(* the four time queries asked of the stored state at the same moment      *)
TimeQueries ==
  /\ ~timing.asked
  /\ LET info == GetNextScheduledRound(timing.gs, timing.now)
     IN  timing' = [timing EXCEPT
                      !.asked = TRUE,
                      !.remaining = GetTimeRemainingInRound(timing.gs, timing.now),
                      !.expired = IsRoundExpired(timing.gs, timing.now),
                      !.scheduled = info.scheduled,
                      !.scheduledTime = info.scheduledTime,
                      !.timeRemaining = info.timeRemaining,
                      !.due = RoundAdvancementDue(info)]
  /\ UNCHANGED << store, now, vcConfig, pc, loc, advances, tally, story >>

(* the vote record of the round is created                                 *)
StoreRoundEndTime ==
  /\ ~timing.stored
  /\ timing' = [timing EXCEPT !.stored = TRUE,
                              !.roundEndTime = VoteDataRoundEndTime(timing.gs)]
  /\ UNCHANGED << store, now, vcConfig, pc, loc, advances, tally, story >>

MaxClock == 125
TimeDurations == {1, 2}
RoundStarts == {0, 3}

(* a game in either unit, active or completed, in its first round, looked  *)
(* at up to MaxClock minutes after time 0                                  *)
TimeStates ==
  {[NewGameState(Story.startNodeId, d, tm, s) EXCEPT !.isActive = a] :
     d \in TimeDurations, tm \in BOOLEAN, s \in RoundStarts, a \in BOOLEAN}

InitTime ==
  /\ gameState = NoGameState
  /\ config = NoConfig
  /\ voteData = [r \in Rounds |-> NoVoteData]
  /\ jobs = [r \in Rounds |-> 0]
  /\ now = 0
  /\ vcConfig = [minimumVotes |-> 0, randomTieBreaking |-> TRUE]
  /\ pc = [p \in Procs |-> "idle"]
  /\ loc = [p \in Procs |-> IdleLoc]
  /\ advances = 0
  /\ tally = NoTally
  /\ story = NoUpload
  /\ timing \in {[NoTiming EXCEPT !.gs = g, !.now = t] :
                   g \in TimeStates, t \in 0..MaxClock}

NextTime ==
  \/ TimeQueries
  \/ StoreRoundEndTime

SpecTime == InitTime /\ [][NextTime]_vars

(***************************************************************************)
(* Properties.                                                             *)
(***************************************************************************)
Firings == {"timer", "menu", "manual"}

(* the fields of the persisted game state that a firing may change         *)
SameGame(a, b) ==
  /\ a.exists = b.exists
  /\ a.currentNodeId = b.currentNodeId
  /\ a.roundNumber = b.roundNumber
  /\ a.storyPath = b.storyPath
  /\ a.roundStartTime = b.roundStartTime
  /\ a.isActive = b.isActive

(* the nodes the story reaches from node n by choice c                     *)
NextOf(n, c) ==
  {Story.nodes[n].choices[i].nextNodeId :
     i \in {j \in 1..Len(Story.nodes[n].choices) : Story.nodes[n].choices[j].id = c}}

IsEndNode(n) == n \in NodeIds /\ Story.nodes[n].isEnd

(* C1: once an attempt has advanced onto a node that is no end node and    *)
(* the publication of the next round has failed, the persisted game state  *)
(* equals the game state the attempt began with.                           *)
C1_PublishFailureRestoresState ==
  \A p \in Procs :
    loc[p].outcome = "pubfail" => SameGame(gameState, loc[p].attemptPre)

(* an attempt of a timer firing has advanced and failed to publish         *)
C1_PublishFailed ==
  \E p \in Procs : /\ loc[p].kind = "timer"
                   /\ loc[p].outcome = "pubfail"
                   /\ "advance" \in loc[p].afx

(* C2: of two firings for the same round number at most one performs a     *)
(* successful transition, and the round number has grown by at most one    *)
(* when both are over.                                                     *)
C2_OneTransitionPerRound ==
  \A p \in Procs, q \in Procs :
    ( /\ p # q
      /\ pc[p] = "done" /\ pc[q] = "done"
      /\ loc[p].kind \in Firings /\ loc[q].kind \in Firings
      /\ loc[p].crn = loc[q].crn )
    => /\ ~(loc[p].result = "success" /\ loc[q].result = "success")
       /\ gameState.roundNumber <= loc[p].crn + 1

(* two firings for the same round have both passed the round check         *)
C2_BothPassedCheck ==
  /\ \A p \in Procs : loc[p].kind = "timer" /\ loc[p].attempt >= 1
  /\ loc["p1"].crn = loc["p2"].crn

(* C3: a firing whose round number differs from the stored round number of *)
(* an active game ends at the round check with the mismatch result: it     *)
(* makes no attempt (no tally, no publish, no finalize) and neither that   *)
(* step nor any step before the firing has returned changes the game       *)
(* state, the configuration, the vote records or the pending jobs.         *)
C3_StaleFiringIsNoOp ==
  [][\A p \in Procs :
       /\ ( /\ pc[p] \in {"H_check", "M_check"}
            /\ pc'[p] # pc[p]
            /\ gameState.exists /\ gameState.isActive
            /\ gameState.roundNumber # loc[p].crn )
          => /\ pc'[p] = "done"
             /\ loc'[p].result = "mismatch"
             /\ loc'[p].attempt = 0
             /\ loc'[p].afx = {}
             /\ UNCHANGED store
       /\ (pc[p] = "done" /\ loc[p].result = "mismatch") => UNCHANGED store]_vars

(* a job for a round that is not the stored round has fired and ended      *)
C3_StaleFiringOver ==
  \E p \in Procs : /\ pc[p] = "done"
                   /\ loc[p].kind = "timer"
                   /\ loc[p].result = "mismatch"
                   /\ loc[p].pre.isActive
                   /\ loc[p].pre.roundNumber # loc[p].crn

(* C4: when a firing has used up its attempts, the stored round number and *)
(* current node are those the round check saw.                             *)
C4_ExhaustedLeavesRoundUnadvanced ==
  \A p \in Procs :
    (pc[p] = "done" /\ loc[p].result = "exhausted")
    => /\ gameState.roundNumber = loc[p].pre.roundNumber
       /\ gameState.currentNodeId = loc[p].pre.currentNodeId

(* a firing has used up its attempts after a failed publication: the      *)
(* stored round is not the round the firing found and the game is not at   *)
(* an end node                                                             *)
C4_ExhaustedAfterPublishFailure ==
  \E p \in Procs : /\ pc[p] = "done"
                   /\ loc[p].result = "exhausted"
                   /\ loc[p].attempt = maxRetries
                   /\ gameState.roundNumber # loc[p].pre.roundNumber
                   /\ ~IsEndNode(gameState.currentNodeId)

(* C5: when no tracked choice reaches minimumVotes or the round has no     *)
(* vote record, the attempt has no winner and fails with the no-winner     *)
(* result right after the tally: the game state is the one the attempt     *)
(* began with and the attempt has invoked nothing but the tally (no        *)
(* advance, no publish, no finalize, no scheduling).                       *)
C5_NoWinnerAttemptFails ==
  \A p \in Procs :
    loc[p].noValid
    => /\ loc[p].winner = "none"
       /\ loc[p].outcome = "nowinner"
       /\ loc[p].result # "success"
       /\ pc[p] \in {"E_tally", "done"}
       /\ loc[p].afx = {"tally"}
       /\ SameGame(gameState, loc[p].attemptPre)

(* an attempt has found a vote record none of whose choices reaches        *)
(* minimumVotes                                                            *)
C5_NoChoiceReachesMinimum ==
  \E p \in Procs : /\ loc[p].noValid
                   /\ vcConfig.minimumVotes > 0
                   /\ voteData[loc[p].crn].exists
                   /\ loc[p].outcome = "nowinner"

C7_UnknownChoiceRejected ==
  \A p \in Procs :
    (loc[p].seenNode # "none" /\ loc[p].winner \notin NodeChoiceIds(loc[p].seenNode))
    => /\ loc[p].outcome = "threw"
       /\ loc[p].result # "success"
       /\ pc[p] \in {"E_tally", "done"}
       /\ "advance" \notin loc[p].afx
       /\ SameGame(gameState, loc[p].attemptPre)

(* a direct call with a choice id of another node has returned             *)
C7_UnknownChoiceCalled ==
  \E p \in Procs : /\ pc[p] = "done"
                   /\ loc[p].kind = "adv"
                   /\ loc[p].seenNode = "start"
                   /\ loc[p].winner = "1"

(* C8: in a started game the round number is 1 plus the number of          *)
(* completed advances, and storyPath has no two consecutive equal entries. *)
C8_RoundCountsAdvances ==
  gameState.exists
  => /\ gameState.roundNumber = 1 + advances
     /\ \A i \in 1..(Len(gameState.storyPath) - 1) :
           gameState.storyPath[i] # gameState.storyPath[i + 1]

(* the choice that leads back to its own node has been taken               *)
C8_SelfLoopTaken ==
  /\ gameState.exists
  /\ advances = 2
  /\ gameState.currentNodeId = "nodeX"
  /\ gameState.storyPath = << "start", "nodeX" >>

(* C9: when all scores were fetched and one tracked choice c has the       *)
(* highest score, at least minimumVotes, the first attempt of a firing     *)
(* fails only if the publication or the recap fails, and after its success *)
(* the current node is the nextNodeId of c on the node the firing found    *)
(* and the round number is one more than the firing found.                 *)
C9_UniqueTopChoiceWins ==
  \A p \in Procs :
    (loc[p].kind \in Firings /\ loc[p].top # "none")
    => /\ (pc[p] = "done" /\ loc[p].attempt = 1)
          => loc[p].outcome \in {"ok", "pubfail", "recapfail"}
       /\ (pc[p] = "E_tally" /\ loc[p].attempt = 2)
          => loc[p].outcome \in {"pubfail", "recapfail"}
       /\ (pc[p] = "done" /\ loc[p].attempt = 1 /\ loc[p].result = "success")
          => /\ gameState.currentNodeId \in NextOf(loc[p].pre.currentNodeId, loc[p].top)
             /\ gameState.roundNumber = loc[p].pre.roundNumber + 1

(* a timer firing has succeeded at once with B ahead of A                  *)
C9_SecondChoiceWon ==
  \E p \in Procs : /\ pc[p] = "done"
                   /\ loc[p].kind = "timer"
                   /\ loc[p].attempt = 1
                   /\ loc[p].result = "success"
                   /\ loc[p].top = "B"
                   /\ loc[p].pre.currentNodeId = "start"

C11_FinalizationRetried ==
  \A p \in Procs :
    ( /\ pc[p] = "done"
      /\ loc[p].kind \in Firings
      /\ loc[p].attempt >= 1
      /\ loc[p].pre.isActive
      /\ IsEndNode(loc[p].pre.currentNodeId) )
    => "finalize" \in loc[p].afx

(* the recap has failed and the game is still active at the end node       *)
C11_ActiveAtEndNode ==
  \E p \in Procs : /\ pc[p] = "done"
                   /\ loc[p].outcome = "recapfail"
                   /\ gameState.exists /\ gameState.isActive
                   /\ IsEndNode(gameState.currentNodeId)

(* C12: while the stored game is inactive, a firing ends at its check      *)
(* with the inactive result and without an attempt, advanceStoryByChoice   *)
(* throws, and no step changes the game state unless it deletes it (reset) *)
(* or starts a new game.                                                   *)
C12_InactiveGameAcceptsNothing ==
  [][(gameState.exists /\ ~gameState.isActive)
     => /\ \/ gameState' = gameState
           \/ ~gameState'.exists
           \/ gameState' = NewGameState(Story.startNodeId, gameState'.roundDurationHours,
                                        gameState'.testMode, now)
        /\ \A p \in Procs :
             /\ (pc[p] \in {"H_resolve", "H_check", "M_check"} /\ pc'[p] # pc[p])
                => /\ pc'[p] = "done"
                   /\ loc'[p].result \in {"inactive", "noactive"}
                   /\ loc'[p].attempt = 0
                   /\ loc'[p].afx = {}
             /\ (pc[p] = "A_node" /\ pc'[p] # pc[p])
                => /\ loc'[p].outcome = "threw"
                   /\ "advance" \notin loc'[p].afx]_vars

(* a job has fired for the round at which the game was completed           *)
C12_FiringFoundCompletedGame ==
  \E p \in Procs : /\ pc[p] = "done"
                   /\ loc[p].kind = "timer"
                   /\ loc[p].result = "inactive"
                   /\ loc[p].pre.exists /\ ~loc[p].pre.isActive
                   /\ loc[p].pre.roundNumber = loc[p].crn

(* the score the tally gives the i-th tracked choice of the record read by *)
(* the last getWinningChoice call                                          *)
TalliedScore(i) == IF tally.fetched[i] = FetchFailed THEN 0 ELSE tally.fetched[i]

(* the positions, in the choice order of node n, of the choices that share *)
(* the highest tallied score                                               *)
TiedTop(n) ==
  LET cs == ChoiceIdSeq(n)
      tracked == 1..Len(tally.vd.choices)
  IN  {i \in 1..Len(cs) :
         \E k \in tracked : /\ tally.vd.choices[k] = cs[i]
                            /\ \A j \in tracked : TalliedScore(j) <= TalliedScore(k)}

(* C13: with randomTieBreaking = false, when several choices share the top *)
(* score and getWinningChoice returns a winner, the winner is the tied     *)
(* choice that comes first in the choice order of the current node.        *)
C13_FirstInNodeOrderWins ==
  ( /\ tally.called /\ ~vcConfig.randomTieBreaking
    /\ tally.winner # "none" /\ Cardinality(TiedTop(tally.node)) > 1 )
  => \E i \in TiedTop(tally.node) :
        /\ tally.winner = ChoiceIdSeq(tally.node)[i]
        /\ \A j \in TiedTop(tally.node) : i <= j

(* a tie between the two choices of the start node was resolved by the     *)
(* first-choice tie-breaker                                                *)
C13_TieResolvedFirst ==
  /\ tally.called /\ ~vcConfig.randomTieBreaking /\ tally.node = "start"
  /\ Cardinality(TiedTop("start")) = 2 /\ tally.winner = "A"

(* C14: getWinningChoice returns no winner exactly when no tracked choice  *)
(* has a score of at least minimumVotes; a winner it returns is a tracked  *)
(* choice whose score is the highest among the tracked choices, under      *)
(* either tie-breaker.                                                     *)
C14_NoneExactlyBelowMinimum ==
  tally.called =>
    LET tracked == 1..Len(tally.vd.choices)
    IN  /\ (tally.winner = "none")
             <=> (\A i \in tracked : TalliedScore(i) < vcConfig.minimumVotes)
        /\ tally.winner # "none"
             => \E i \in tracked :
                   /\ tally.vd.choices[i] = tally.winner
                   /\ \A j \in tracked : TalliedScore(j) <= TalliedScore(i)

(* two choices tied at a score one below minimumVotes: no winner           *)
C14_TiedBelowMinimum ==
  /\ tally.called /\ Len(tally.vd.choices) = 2 /\ tally.winner = "none"
  /\ tally.fetched[1] = tally.fetched[2] /\ tally.fetched[1] >= 1
  /\ vcConfig.minimumVotes = tally.fetched[1] + 1

(* C15: when the score of a tracked choice could not be fetched, countVotes *)
(* still returns one result per tracked choice: 0 for a choice whose fetch *)
(* failed, the fetched score for every other choice.                       *)
C15_FailedFetchCountsZero ==
  (tally.called /\ tally.vd.exists) =>
    /\ Len(tally.voteResults) = Len(tally.vd.choices)
    /\ \A i \in 1..Len(tally.vd.choices) :
         \E j \in 1..Len(tally.voteResults) :
            /\ tally.voteResults[j].choiceId = tally.vd.choices[i]
            /\ tally.voteResults[j].upvotes =
                 (IF tally.fetched[i] = FetchFailed THEN 0 ELSE tally.fetched[i])

(* one fetch failed, the other choice was tallied with its positive score  *)
(* and won                                                                 *)
C15_OneFetchFailed ==
  /\ tally.called /\ Len(tally.vd.choices) = 2
  /\ \E i, j \in 1..2 : /\ tally.fetched[i] = FetchFailed /\ tally.fetched[j] > 0
                        /\ tally.winner = tally.vd.choices[j]

(* C16: when the winner of the tally is not one of the choices of the node *)
(* that advanceStoryByChoice finds current, the firing is over with that   *)
(* step (the attempt is not repeated) and the stored game state is         *)
(* unchanged.                                                              *)
C16_InvalidWinnerNotRetried ==
  [][\A p \in Procs :
       ( /\ pc[p] = "A_node" /\ pc'[p] # pc[p] /\ loc[p].kind \in Firings
         /\ gameState.exists /\ gameState.isActive
         /\ NodeChoiceIds(gameState.currentNodeId) # {}
         /\ loc[p].winner \notin NodeChoiceIds(gameState.currentNodeId) )
       => pc'[p] = "done" /\ gameState' = gameState]_vars

(* a timer or menu firing repeats its attempt after advanceStoryByChoice   *)
(* has rejected the winner of the tally                                    *)
C16_InvalidWinnerRetried ==
  \E p \in Procs :
    /\ pc[p] = "E_tally" /\ loc[p].kind \in {"timer", "menu"} /\ loc[p].attempt >= 2
    /\ loc[p].outcome = "threw" /\ loc[p].seenNode \in NodeIds
    /\ NodeChoiceIds(loc[p].seenNode) # {}
    /\ loc[p].winner \notin NodeChoiceIds(loc[p].seenNode)

(* C17: no round number has more than one pending timer.                   *)
C17_OnePendingTimerPerRound == \A r \in Rounds : jobs[r] <= 1

(* the current round of an active game has been scheduled a second time    *)
(* while its first timer was pending                                       *)
C17_RoundScheduledTwice ==
  /\ gameState.exists /\ gameState.isActive
  /\ jobs[gameState.roundNumber] = 2 /\ AllIdle

(* C18: a step that resets the game, or that completes it, leaves no timer *)
(* pending.                                                                *)
C18_NoTimerAfterResetOrCompletion ==
  [][( /\ gameState.exists
       /\ \/ ~gameState'.exists
          \/ gameState.isActive /\ ~gameState'.isActive )
     => \A r \in Rounds : jobs'[r] = 0]_vars

(* a firing has completed the game while a timer was pending               *)
C18_CompletedWithPendingTimer ==
  /\ gameState.exists /\ ~gameState.isActive /\ Pending > 0
  /\ \E p \in Procs : pc[p] = "done" /\ "complete" \in loc[p].afx /\ loc[p].result = "success"

(* C19: a manual advancement (manualRoundAdvancement, or                   *)
(* handleRoundAdvancement without a round number) makes an attempt, and    *)
(* changes the stored state, only when its check has found the game active *)
(* and the stored round number equal to the round it advances.             *)
C19_ManualAdvancementChecked ==
  [][\A p \in Procs :
       ( /\ loc'[p].kind \in {"manual", "menu"}
         /\ loc'[p].attempt >= 1 \/ store' # store )
       => /\ loc'[p].attempt >= 1
          /\ loc'[p].pre.exists /\ loc'[p].pre.isActive
          /\ loc'[p].pre.roundNumber = loc'[p].crn]_vars

(* manualRoundAdvancement has advanced the story by one round              *)
C19_ManualAdvanced ==
  \E p \in Procs :
    /\ loc[p].kind = "manual" /\ "advance" \in loc[p].afx
    /\ gameState.exists /\ gameState.roundNumber = loc[p].crn + 1

(* C20: a timer firing that has ended at its check, for an inactive game   *)
(* or for a round mismatch, has made no attempt, returns a result that is  *)
(* no failure, and the scheduler job does not throw.                       *)
C20_StaleFiringNotAFailure ==
  \A p \in Procs :
    ( /\ pc[p] = "done" /\ loc[p].kind = "timer"
      /\ loc[p].result \in {"inactive", "mismatch"} )
    => /\ loc[p].attempt = 0
       /\ ResultSuccess(loc[p].result)
       /\ ~JobThrows(loc[p])

(* a job has fired for a game that was reset or completed, or for a round  *)
(* that is over, and has ended without an attempt                          *)
C20_FiringEndedAtCheck ==
  \E p \in Procs :
    /\ pc[p] = "done" /\ loc[p].kind = "timer" /\ loc[p].attempt = 0
    /\ loc[p].afx = {} /\ JobThrows(loc[p])
    /\ \/ loc[p].result = "inactive" /\ ~loc[p].pre.exists
       \/ loc[p].result = "mismatch" /\ loc[p].pre.roundNumber > loc[p].crn

(* C21: a step that starts a game (the stored game was absent or inactive  *)
(* and is active afterwards) leaves a game state with currentNodeId =      *)
(* startNodeId, roundNumber = 1, storyPath = <<startNodeId>>, isActive and *)
(* roundStartTime = now, whatever was stored before.                       *)
C21_StartProducesInitialState ==
  [][( /\ ~(gameState.exists /\ gameState.isActive)
       /\ gameState'.exists /\ gameState'.isActive )
     => /\ gameState'.currentNodeId = Story.startNodeId
        /\ gameState'.roundNumber = 1
        /\ gameState'.storyPath = << Story.startNodeId >>
        /\ gameState'.roundStartTime = now']_vars

(* a game has been started over the remains of an earlier game: a timer    *)
(* of the earlier game's second round is still pending                     *)
C21_StartedAfterEarlierGame ==
  /\ gameState.exists /\ gameState.isActive /\ advances = 0
  /\ gameState.roundNumber = 1 /\ gameState.storyPath = << Story.startNodeId >>
  /\ jobs[2] > 0

(* C22: a reset ('Stop Game', or StoryEngine.resetGame) leaves no active   *)
(* game, a stored game state it leaves has roundNumber = 1 and storyPath = *)
(* <<startNodeId>>, and the duration unit of the game (testMode; hours     *)
(* when no game state is stored) is the one it was before.                 *)
C22_ResetClearsProgressOnly ==
  [][(ResetGame \/ StoryEngineResetGame)
     => /\ ~(gameState'.exists /\ gameState'.isActive)
        /\ gameState'.exists
             => /\ gameState'.roundNumber = 1
                /\ gameState'.storyPath = << Story.startNodeId >>
        /\ gameState'.testMode = gameState.testMode]_vars

(* a game in test mode has been advanced to its second round: the state a  *)
(* reset acts on                                                           *)
C22_TestModeGameAdvanced ==
  /\ AllIdle /\ gameState.exists /\ gameState.isActive /\ gameState.testMode
  /\ gameState.roundNumber = 2 /\ config.exists

(* the StoryGraph invariant: startNodeId and every nextNodeId name a node, *)
(* an end node has no choices, every other node has one at least, and      *)
(* there is an end node                                                    *)
StoryGraphInvariant(g) ==
  /\ g.startNodeId \in DOMAIN g.nodes
  /\ \A n \in DOMAIN g.nodes :
       /\ \A i \in 1..Len(g.nodes[n].choices) :
            g.nodes[n].choices[i].nextNodeId \in DOMAIN g.nodes
       /\ g.nodes[n].isEnd <=> Len(g.nodes[n].choices) = 0
  /\ \E n \in DOMAIN g.nodes : g.nodes[n].isEnd

(* the choices of graph g that name no node, as pairs of node and index    *)
Dangling(g) ==
  {nc \in (DOMAIN g.nodes) \X (1..MaxChoices) :
     /\ nc[2] <= Len(g.nodes[nc[1]].choices)
     /\ g.nodes[nc[1]].choices[nc[2]].nextNodeId \notin DOMAIN g.nodes}

GameActive == gameState.exists /\ gameState.isActive

(* C23: a game is active only on a stored story graph that satisfies the   *)
(* StoryGraph invariant, and after a start that failed no game is active.  *)
C23_NoActiveGameOnInvalidGraph ==
  /\ GameActive => story.hasStory /\ StoryGraphInvariant(story.stored)
  /\ story.result \in {"uploadFailed", "startFailed"} => ~GameActive

(* loadStory has rejected, in handleStartGame, a graph that the upload had *)
(* accepted                                                                *)
C23_StartFailedAfterUpload ==
  /\ story.result = "startFailed" /\ story.thrown.kind = "noEnd"
  /\ story.hasStory /\ ~StoryGraphInvariant(story.stored)

(* C24: when the graph in the settings satisfies the StoryGraph invariant, *)
(* a validation of it collects no error and throws none, and the graph is  *)
(* stored with its start node, unreachable nodes or not.                   *)
C24_ValidGraphAccepted ==
  (StoryGraphInvariant(story.settings) /\ story.result # "none")
  => /\ story.errors = {} /\ story.thrown = NoError
     /\ story.hasStory /\ story.stored = story.settings
     /\ story.stored.startNodeId \in DOMAIN story.stored.nodes

(* the upload of a graph that satisfies the invariant has failed, and      *)
(* every error is about an unreachable node                                *)
C24_UnreachableNodeRejected ==
  /\ StoryGraphInvariant(story.settings) /\ story.result = "uploadFailed"
  /\ story.errors # {} /\ \A e \in story.errors : e.kind = "unreachable"

C27_VoteRecordChoicesOfCurrentNode ==
  [][\A r \in Rounds :
       ( /\ voteData'[r].exists
         /\ \/ voteData'[r] # voteData[r]
            \/ \E p \in Procs : /\ pc[p] = "P_store" /\ pc'[p] # "P_store"
                                /\ loc[p].pmRound = r )
       => /\ gameState'.exists
          /\ Range(voteData'[r].choices)
               \subseteq NodeChoiceIds(gameState'.currentNodeId)]_vars

(* storeChoiceCommentMapping has written the record of a later round, for  *)
(* the node with the choice ids A and 1                                    *)
C27_RecordOfLaterRound ==
  \E p \in Procs, r \in Rounds :
    /\ r > 1 /\ "votes" \in loc[p].afx /\ loc[p].pmRound = r
    /\ voteData[r].exists /\ Range(voteData[r].choices) = {"A", "1"}

IsPrefix(a, b) == Len(a) <= Len(b) /\ SubSeq(b, 1, Len(a)) = a

StartOrReset ==
  \/ \E d \in Durations, tm \in BOOLEAN, sch \in BOOLEAN, post \in BOOLEAN :
        StartGame(d, tm, sch, post)
  \/ ResetGame
  \/ StoryEngineResetGame

(* C28: every step of a game that is no start and no reset keeps the       *)
(* stored story path as a prefix of the new one, and the path begins with  *)
(* the start node.                                                         *)
C28_StoryPathAppendOnly ==
  [][(gameState.exists /\ ~StartOrReset)
     => /\ gameState'.exists
        /\ IsPrefix(gameState.storyPath, gameState'.storyPath)
        /\ gameState'.storyPath[1] = Story.startNodeId]_vars

(* a rollback has restored the state and navigated back, on a path of      *)
(* more than one node                                                      *)
C28_RolledBackOnLongerPath ==
  \E p \in Procs :
    /\ {"advance", "restore"} \subseteq loc[p].afx
    /\ pc[p] \notin {"B_nav", "B_write"}
    /\ gameState.exists /\ Len(gameState.storyPath) > 1

(* C29: while every game is started with manualOnly = true, no job is      *)
(* pending at any time.                                                    *)
C29_ManualOnlyNeverSchedules == Pending = 0

(* 'Advance Round' has advanced a manual-only game and has reached the     *)
(* scheduling step of the attempt                                          *)
C29_ManualAdvanceScheduled ==
  \E p \in Procs :
    /\ loc[p].kind = "menu" /\ {"advance", "schedule"} \subseteq loc[p].afx
    /\ gameState.exists /\ gameState.isActive

(* the round counter or the path has reached the bound of the model        *)
AtBound ==
  gameState.exists /\ (gameState.roundNumber >= MaxRound
                       \/ Len(gameState.storyPath) >= MaxPath)

SchedulerResults ==
  {"success", "exhausted", "failed", "noactive", "inactive", "mismatch"}

(* C30: a firing never makes more than maxRetries attempts, a successful   *)
(* attempt ends the firing with the success result, a firing ends only by  *)
(* returning a result, and every firing that has begun ends.               *)
C30_FiringTerminatesWithResult ==
  /\ [](\A p \in Procs :
          /\ loc[p].attempt <= maxRetries
          /\ loc[p].kind = "manual" => loc[p].attempt <= 1
          /\ pc[p] = "done" => loc[p].result \in SchedulerResults)
  /\ [][\A p \in Procs :
          /\ (pc[p] # "done" /\ pc'[p] = "done" /\ loc'[p].outcome = "ok")
             => loc'[p].result = "success"
          /\ (pc[p] \notin {"idle", "done"} /\ loc'[p].outcome = "ok")
             => pc'[p] = "done"
          /\ (pc[p] \notin {"idle", "done"} /\ pc'[p] = "idle") => FALSE]_vars
  /\ \A p \in Procs :
       (pc[p] \in {"H_resolve", "H_check", "M_check"})
         ~> (pc[p] = "done" \/ AtBound)

(* a firing has ended after maxRetries failed attempts, the last of them   *)
(* by an exception                                                         *)
C30_ExhaustedByException ==
  \E p \in Procs :
    /\ pc[p] = "done" /\ loc[p].result = "exhausted"
    /\ loc[p].attempt = maxRetries /\ loc[p].outcome = "threw"

(* C31: when an attempt ends at the scheduling step, the firing reports    *)
(* success and the stored state, one round after the state the attempt     *)
(* began with and at a node that is no end node, is kept; the job that was *)
(* created is for the new round number and runs after the round duration   *)
(* in the unit of the game, and no job is created when scheduling failed.  *)
C31_NextRoundScheduled ==
  [][\A p \in Procs :
       (pc[p] = "S_sched" /\ pc'[p] = "done")
       => /\ loc'[p].result = "success"
          /\ gameState' = gameState
          /\ gameState.exists /\ gameState.isActive
          /\ ~IsEndNode(gameState.currentNodeId)
          /\ gameState.roundNumber = loc[p].attemptPre.roundNumber + 1
          /\ IF "job" \in loc'[p].afx
             THEN /\ jobs' = [jobs EXCEPT ![gameState.roundNumber] = @ + 1]
                  /\ loc'[p].runIn = IF gameState.testMode
                                     THEN gameState.roundDurationHours
                                     ELSE gameState.roundDurationHours * 60
             ELSE jobs' = jobs]_vars

(* a firing of a test-mode game has scheduled the next round               *)
C31_TestModeRoundScheduled ==
  \E p \in Procs :
    /\ pc[p] = "done" /\ "job" \in loc[p].afx
    /\ gameState.exists /\ gameState.testMode /\ gameState.roundNumber > 1

(* the round duration of a game in the unit of the game, in minutes        *)
UnitAwareDuration(gs) ==
  IF gs.testMode THEN gs.roundDurationHours ELSE gs.roundDurationHours * 60

(* C32: the roundEndTime of a vote record is the start of the round plus   *)
(* the round duration in the unit of the game.                             *)
C32_DeadlineInGameUnit ==
  timing.stored
  => timing.roundEndTime = timing.gs.roundStartTime + UnitAwareDuration(timing.gs)

(* the vote record of a round of a test-mode game has been created         *)
C32_TestModeRecordStored == timing.stored /\ timing.gs.testMode

(* C33: for an active game the engine's time remaining is                  *)
(* max(0, roundStartTime + duration - now) in the unit of the game, the    *)
(* round is expired exactly when nothing remains, and the scheduler's      *)
(* queries give the same answers.                                          *)
C33_TimeQueriesAgree ==
  (timing.asked /\ timing.gs.isActive)
  => /\ timing.remaining =
          Max0(timing.gs.roundStartTime + UnitAwareDuration(timing.gs) - timing.now)
     /\ timing.expired = (timing.remaining = 0)
     /\ timing.scheduled
     /\ timing.timeRemaining = timing.remaining
     /\ timing.due = timing.expired

(* the engine says the round of an active test-mode game has expired, the  *)
(* scheduler says it is not due                                            *)
C33_ExpiredButNotDue ==
  /\ timing.asked /\ timing.gs.isActive /\ timing.gs.testMode
  /\ timing.expired /\ ~timing.due

(* C34: a step taken while a game is active leaves the stored story graph  *)
(* as it is.                                                               *)
C34_StoredGraphFrozenWhileActive ==
  [][GameActive => (story'.hasStory = story.hasStory
                    /\ story'.stored = story.stored)]_vars

(* 'Start Game' has been refused for an active game whose current node is  *)
(* still a node of the stored graph, and the stored graph is the edited    *)
(* one                                                                     *)
C34_RefusedStartStoredEditedGraph ==
  /\ GameActive /\ story.result = "alreadyActive" /\ story.edits > 0
  /\ story.hasStory /\ story.stored = story.settings
  /\ gameState.currentNodeId \in DOMAIN story.stored.nodes

(* the nodes one choice edge away from node n                              *)
Successors(n) ==
  {Story.nodes[n].choices[i].nextNodeId : i \in 1..Len(Story.nodes[n].choices)}

(* C35: from the round check of a firing of handleRoundAdvancement until   *)
(* it has returned, the round number is at most one more than the firing   *)
(* found and the current node is the node it found or one choice edge      *)
(* away from it.                                                           *)
C35_OneAdvancePerFiring ==
  \A p \in Procs :
    (loc[p].kind \in {"timer", "menu"} /\ loc[p].attempt >= 1 /\ gameState.exists)
    => /\ gameState.roundNumber <= loc[p].pre.roundNumber + 1
       /\ gameState.currentNodeId
            \in {loc[p].pre.currentNodeId} \cup Successors(loc[p].pre.currentNodeId)

(* a later attempt of a firing is running on a state that an earlier       *)
(* attempt of the same firing has advanced                                 *)
C35_RetryAfterPersistedAdvance ==
  \E p \in Procs :
    /\ loc[p].kind = "timer" /\ loc[p].attempt = 2 /\ pc[p] = "A_node"
    /\ gameState.exists /\ gameState.roundNumber = loc[p].pre.roundNumber + 1
    /\ loc[p].winner \in NodeChoiceIds(gameState.currentNodeId)

(* C36: the story path of a stored game state ends with the current node,  *)
(* and each entry is one choice edge away from the entry before it.        *)
C36_PathEndsAtCurrentNode ==
  gameState.exists
  => /\ Len(gameState.storyPath) > 0
     /\ gameState.storyPath[Len(gameState.storyPath)] = gameState.currentNodeId
     /\ \A i \in 1..(Len(gameState.storyPath) - 1) :
          gameState.storyPath[i + 1] \in Successors(gameState.storyPath[i])

(* two firings have both looked their choice up on the start node, and    *)
(* both have stored an advance                                             *)
C36_BothAdvancedFromStart ==
  /\ \A p \in Procs : loc[p].seenNode = "start" /\ "advance" \in loc[p].afx
  /\ gameState.exists /\ gameState.roundNumber = 3

(* C37: the firing of the job for round 1 that was pending when the game   *)
(* was reset makes no attempt and advances nothing.  (No other job for     *)
(* round 1 exists: the games started after the reset schedule none, and a  *)
(* firing schedules jobs for later rounds only.)                           *)
C37_StaleTimerIsNoOp ==
  \A p \in Procs :
    (loc[p].kind = "timer" /\ loc[p].crn = 1)
    => loc[p].attempt = 0 /\ "advance" \notin loc[p].afx

(* the job left by the reset game is about to be checked against a game    *)
(* that was started after the reset and is in its first round              *)
C37_OldTimerMeetsNewGame ==
  \E p \in Procs :
    /\ loc[p].kind = "timer" /\ loc[p].crn = 1 /\ pc[p] = "H_check"
    /\ gameState.exists /\ gameState.isActive /\ gameState.roundNumber = 1

(* C38: when no game is started, a game state that is absent stays absent: *)
(* no step of a firing creates it again after the reset has deleted it.    *)
C38_ResetIsFinal ==
  [][~gameState.exists => ~gameState'.exists]_vars

(* the reset has deleted the game state while an attempt holds a state     *)
(* object it is going to write                                             *)
C38_ResetDuringAttempt ==
  \E p \in Procs :
    /\ ~gameState.exists /\ ~config.isGameActive
    /\ pc[p] \in {"A_write", "B_restore"}

(* C39: when a firing has returned and the game is active at a node that   *)
(* is no end node, the vote record of the current round exists and has a   *)
(* choice.                                                                 *)
C39_CurrentRoundHasVoteRecord ==
  \A p \in Procs :
    ( /\ pc[p] = "done" /\ loc[p].kind \in Firings
      /\ GameActive /\ ~IsEndNode(gameState.currentNodeId) )
    => /\ voteData[gameState.roundNumber].exists
       /\ Len(voteData[gameState.roundNumber].choices) >= 1

(* a firing has returned after it moved the game to a later round at a     *)
(* node that is no end node                                                *)
C39_FiringAdvancedToOpenRound ==
  \E p \in Procs :
    /\ pc[p] = "done" /\ loc[p].kind \in Firings /\ loc[p].pre.exists
    /\ GameActive /\ ~IsEndNode(gameState.currentNodeId)
    /\ gameState.roundNumber > loc[p].pre.roundNumber

====
